---- MODULE Spec2Model ----
(***************************************************************************)
(* A model of the sym equation compiler's code generator: the driver       *)
(* write_file (Default_write_file, PYTHON_write_file, HTML_write_file),    *)
(* the capability table the language modules install their hooks in, and   *)
(* the vector slot allocator and variable registry of the Python (MSGPROC) *)
(* back end.                                                               *)
(*                                                                         *)
(* A run is one process: Default_setup, the language's setup, then the     *)
(* installed write_file, one step of it per action.  The symbol table and  *)
(* the equation list are the parser's output and are fixed during a run.   *)
(* A fatal error (FAULT, fatal_error, msg_error) ends the process: the     *)
(* model records its message in `fatal` and moves to pc = "abort".         *)
(***************************************************************************)
EXTENDS Integers, Sequences, FiniteSets, TLC

VARIABLES
    lang,        \* the language chosen for the run
    do_calc,     \* option: TABLO calculation mode
    symtab,      \* the symbol table: [set, par, var], each in registration order
    eqns,        \* the equation list, in file order
    codegen,     \* the capability table: slot -> installed implementation
    eqn_style,   \* "unset" | "scalar" | "vector"
    sum_style,   \* "unset" | "scalar" | "vector"
    pc,          \* the driver's position
    sym_k,       \* number of symbols already passed to declare
    eq_i,        \* index of the current equation (0 before the first)
    neqns,       \* write_file's local neqns
    cart,        \* the Cartesian iterator: the tuples cart_next has yet to return
    py,          \* statics of python2.c
    tablo,       \* statics of tablo.c
    html,        \* statics of html.c
    calls,       \* history: the hook calls made so far, in order
    fatal,       \* "" or the message of the fatal error that ended the run
    run,         \* 1: the run of the model as given; 2: the run of the reduced model
    prior,       \* in run 2, how run 1 ended: "done" or its fatal message
    wrap,        \* the frame of wrap_write: its arguments, locals and output
    render       \* the frame of a call of the renderer: arguments and result

vars == <<lang, do_calc, symtab, eqns, codegen, eqn_style, sum_style, pc, sym_k,
          eq_i, neqns, cart, py, tablo, html, calls, fatal, run, prior, wrap, render>>

-----------------------------------------------------------------------------
(* Bounds of the model.                                                    *)

MaxEqns == 2        \* equations of a model (driver runs)
MaxVars == 3        \* variables of a model (allocator and registry runs)
MaxPars == 1        \* parameters of a model (allocator and registry runs)
MaxReconEqns == 3   \* equations of a model (reconciliation runs)
MaxShift == 2       \* greatest lag or lead of a reference (context runs)
MaxLine == 5        \* characters of a line given to wrap_write
MaxWidth == 3       \* greatest line length option
MaxLeaves == 2      \* distinct names at the leaves of a rendered tree
MaxTags == 2        \* kind tags among the attributes of an identifier (kind runs)

-----------------------------------------------------------------------------
(* Small helpers.                                                          *)

Range(s) == {s[i] : i \in 1..Len(s)}

RECURSIVE SumSeq(_)
SumSeq(s) == IF s = <<>> THEN 0 ELSE Head(s) + SumSeq(Tail(s))

SeqsUpTo(S, n) == UNION {[1..k -> S] : k \in 0..n}

\* The bytes of the C strings that the model compares character by character.
Bytes ==
    [a |-> <<97>>, A |-> <<65>>, B |-> <<66>>, b |-> <<98>>, ab |-> <<97, 98>>,
     c |-> <<99>>, p |-> <<112>>, P |-> <<80>>, q |-> <<113>>,
     R |-> <<82>>, G |-> <<71>>, S |-> <<83>>, T |-> <<84>>,
     orig |-> <<111, 114, 105, 103>>, dest |-> <<100, 101, 115, 116>>,
     currency |-> <<99, 117, 114, 114, 101, 110, 99, 121>>,
     owner |-> <<111, 119, 110, 101, 114>>,
     regions |-> <<114, 101, 103, 105, 111, 110, 115>>,
     sectors |-> <<115, 101, 99, 116, 111, 114, 115>>,
     goods |-> <<103, 111, 111, 100, 115>>,
     REXC |-> <<82, 69, 88, 67>>, EXCH |-> <<69, 88, 67, 72>>,
     x |-> <<120>>, y |-> <<121>>, zz |-> <<122, 122>>,
     end |-> <<101, 110, 100>>, exo |-> <<101, 120, 111>>, gdp |-> <<103, 100, 112>>,
     pct |-> <<112, 99, 116>>,
     A001 |-> <<65, 48, 48, 49>>, B001 |-> <<66, 48, 48, 49>>, C001 |-> <<67, 48, 48, 49>>,
     I001 |-> <<73, 48, 48, 49>>, K001 |-> <<75, 48, 48, 49>>, M001 |-> <<77, 48, 48, 49>>,
     N001 |-> <<78, 48, 48, 49>>, O001 |-> <<79, 48, 48, 49>>, P001 |-> <<80, 48, 48, 49>>,
     T001 |-> <<84, 48, 48, 49>>, X001 |-> <<88, 48, 48, 49>>, Z001 |-> <<90, 48, 48, 49>>,
     b001 |-> <<98, 48, 48, 49>>]

tolower(ch) == IF ch \in 65..90 THEN ch + 32 ELSE ch

\* strcasecmp on byte strings: the difference of the first pair of lowered
\* bytes that differ, the end of a string counting as the byte 0.
RECURSIVE casecmp(_, _)
casecmp(s, t) ==
    LET x == IF s = <<>> THEN 0 ELSE tolower(Head(s))
        y == IF t = <<>> THEN 0 ELSE tolower(Head(t))
    IN  IF x # y THEN x - y
        ELSE IF x = 0 THEN 0
        ELSE casecmp(Tail(s), Tail(t))

strcasecmp(n1, n2) == casecmp(Bytes[n1], Bytes[n2])

-----------------------------------------------------------------------------
(* The collaborators the code generator consumes: symbol table, sets,      *)
(* Cartesian iterator, equation accessors.                                 *)

AllSyms == symtab.set \o symtab.par \o symtab.var

istype(sym, t) == sym.type = t

isident(sym) == sym.type \in {"par", "var"}

\* The declared set of that name (only asked for sets that are declared).
SetOf(name) == CHOOSE s \in Range(symtab.set) : s.name = name

IsDeclaredSet(name) == \E s \in Range(symtab.set) : s.name = name

setelements(name) == SetOf(name).elems

issubset(name, super) == IsDeclaredSet(name) /\ super \in SetOf(name).sups

\* All tuples over the sets of `sets`, the rightmost set varying fastest, each
\* set walked in its element order; one empty tuple for an empty set list.
RECURSIVE CartTuples(_)
CartTuples(sets) ==
    IF sets = <<>> THEN << <<>> >>
    ELSE LET rest  == CartTuples(Tail(sets))
             elems == setelements(Head(sets))
             n     == Len(rest)
         IN  [k \in 1..(Len(elems) * n) |->
                  <<elems[((k - 1) \div n) + 1]>> \o rest[((k - 1) % n) + 1]]

\* symsize: the element count of a symbol, the Cartesian size of its domain.
symsize(sym) == Len(CartTuples(sym.domain))

symattrib(sym) == sym.attrs

ismember(tag, list) == \E i \in 1..Len(list) : list[i] = tag

\* A name is declared when the symbol table holds a symbol of that name.
lookup(name) == \E s \in Range(AllSyms) : s.name = name

hasundec(eq) == \E i \in 1..Len(eq.refs) : ~lookup(eq.refs[i].name)

istimeok(eq) == eq.timeok

eqnsets(eq) == eq.sets

eqncount(eq) == eq.count

islvalue(eq) == eq.lvalue

\* isused: the symbol is referred to by some equation of the model.
isusedIn(sym, eqs) ==
    \E i \in 1..Len(eqs) : \E j \in 1..Len(eqs[i].refs) : eqs[i].refs[j].name = sym.name

isused(sym) == isusedIn(sym, eqns)

-----------------------------------------------------------------------------
(* python2.c: vectors, the kind table, the variable registry.              *)

PYTHON_ORIGIN == 0

NUL == 0
Z1L == 1
ZEL == 2
J1L == 3
X1L == 4
Z1R == 5
ZER == 6
YJR == 7
YXR == 8
EXO == 9
EXZ == 10
PAR == 11
X1R == 12
UNK == 13

\* A wrong table, which has the right-hand contexts of each kind before the
\* left-hand ones, to show that C26_FollowerFaultsUnreachable depends on the
\* order of the contexts.
vlist_rhs_first ==
    << [type |-> "end", vecid |-> <<0, Z1R, 0, 0, Z1L, 0>>],
       [type |-> "ets", vecid |-> <<0, ZER, EXZ, 0, ZEL, 0>>],
       [type |-> "exo", vecid |-> <<0, EXO, 0, 0, 0, 0>>],
       [type |-> "cos", vecid |-> <<0, YJR, 0, 0, 0, J1L>>],
       [type |-> "sta", vecid |-> <<0, YXR, 0, 0, 0, X1L>>],
       [type |-> "stl", vecid |-> <<YXR, X1R, 0, 0, X1L, 0>>],
       [type |-> "par", vecid |-> <<0, PAR, 0, 0, 0, 0>>] >>

\* vlist: per kind, the vector of each context in the order left-lag,
\* left-cur, left-lead, right-lag, right-cur, right-lead; 0 is "not allowed".
vlist ==
    << [type |-> "end", vecid |-> <<0, Z1L, 0, 0, Z1R, 0>>],
       [type |-> "ets", vecid |-> <<0, ZEL, 0, 0, ZER, EXZ>>],
       [type |-> "exo", vecid |-> <<0, 0, 0, 0, EXO, 0>>],
       [type |-> "cos", vecid |-> <<0, 0, J1L, 0, YJR, 0>>],
       [type |-> "sta", vecid |-> <<0, 0, X1L, 0, YXR, 0>>],
       [type |-> "stl", vecid |-> <<0, X1L, 0, YXR, X1R, 0>>],
       [type |-> "par", vecid |-> <<0, 0, 0, 0, PAR, 0>>] >>

units ==
    <<"del", "pct", "gdp", "usgdp", "cent", "dollar", "gwh", "gwhgdp", "idx",
      "nomusdbillion", "realusdbillion", "btu", "mmt", "btugdp", "mmtgdp",
      "btuusgdp", "mmtusgdp">>


\* The index in vlist of a kind.
KindIndex(t) == CHOOSE i \in 1..Len(vlist) : vlist[i].type = t

KindTags == {vlist[i].type : i \in 1..Len(vlist)}

\* setup_pythonname: the old-style name form of a symbol, from the sets of its
\* domain.  flags is kept as the set of its bits; 0xFF is all eight of them.
AllBits == {1, 2, 4, 8, 16, 32, 64, 128}

IsNamed(name, setname) == strcasecmp(name, setname) = 0 \/ issubset(name, setname)

scan_regions(v, name, i) ==
    IF IsNamed(name, "regions")
    THEN [v EXCEPT !.of_c = i - 1,
                   !.flags = @ \cup {1},
                   !.of_o = IF strcasecmp(name, "orig") = 0 \/ strcasecmp(name, "currency") = 0
                            THEN i - 1 ELSE @,
                   !.of_d = IF strcasecmp(name, "dest") = 0 \/ strcasecmp(name, "owner") = 0
                            THEN i - 1 ELSE @]
    ELSE v

scan_sectors(v, name, i) ==
    IF IsNamed(name, "sectors")
    THEN [v EXCEPT !.of_a = i - 1, !.flags = IF 2 \in @ THEN AllBits ELSE @ \cup {2}]
    ELSE v

scan_goods(v, name, i) ==
    IF IsNamed(name, "goods")
    THEN [v EXCEPT !.of_g = i - 1, !.flags = IF 4 \in @ THEN AllBits ELSE @ \cup {4}]
    ELSE v

RECURSIVE pythonname_scan(_, _, _)
pythonname_scan(sets, i, v) ==
    IF i > Len(sets) THEN v
    ELSE pythonname_scan(sets, i + 1,
             scan_goods(scan_sectors(scan_regions(v, sets[i], i), sets[i], i), sets[i], i))

pythonname_type(str, v) ==
    IF strcasecmp(str, "REXC") = 0 \/ strcasecmp(str, "EXCH") = 0 THEN "o_cu"
    ELSE IF v.of_o >= 0 /\ v.of_d >= 0 THEN (IF v.of_g < 0 THEN "o_do" ELSE "o_gdo")
    ELSE CASE v.flags = {1}       -> "o_cc"
           [] v.flags = {2}       -> "o_a"
           [] v.flags = {4}       -> "o_g"
           [] v.flags = {1, 2}    -> "o_acc"
           [] v.flags = {1, 4}    -> "o_gcc"
           [] v.flags = {1, 2, 4} -> "o_agcc"
           [] OTHER               -> "o_err"

setup_pythonname(str, sets) ==
    IF sets = <<>> THEN "o_none"
    ELSE CHOOSE t \in {pythonname_type(str, v) :
                          v \in {pythonname_scan(sets, 1,
                                     [flags |-> {}, of_a |-> -1, of_g |-> -1, of_c |-> -1,
                                      of_o |-> -1, of_d |-> -1])}} : TRUE

\* A wrong allocation, which gives a follower the running length of its own
\* vector and advances it, to show that C7_FollowersSynchronized depends on
\* the followers taking their driver's offset.
declare_slot_unsynchronized(vecid, count, a) ==
    IF vecid = 0
    THEN [a EXCEPT !.vecid = Append(@, 0), !.vecoff = Append(@, 0)]
    ELSE [a EXCEPT !.vecid = Append(@, vecid),
                   !.vecoff = Append(@, a.vecinfo[vecid]),
                   !.vecinfo = [@ EXCEPT ![vecid] = @ + count]]

\* A wrong allocation, which leaves the running length of a vector where it
\* was, to show that C25_SlotRangesDisjoint depends on the increment.
declare_slot_not_advanced(vecid, count, a) ==
    IF vecid = 0
    THEN [a EXCEPT !.vecid = Append(@, 0), !.vecoff = Append(@, 0)]
    ELSE IF vecid \in {Z1R, YJR, ZER, EXZ, YXR, X1R}
    THEN [a EXCEPT !.vecid = Append(@, vecid),
                   !.vecoff = Append(@, a.vecinfo[IF vecid = Z1R THEN Z1L
                                                  ELSE IF vecid = YJR THEN J1L
                                                  ELSE IF vecid \in {ZER, EXZ} THEN ZEL
                                                  ELSE X1L])]
    ELSE [a EXCEPT !.vecid = Append(@, vecid),
                   !.vecoff = Append(@, a.vecinfo[vecid])]

\* One turn of the loop of PYTHON_declare over the six contexts, for the
\* vector `vecid` of the context: a.vecinfo are the running lengths, a.my the
\* offsets of the four driver vectors (-1: not yet given), a.vecid and a.vecoff
\* the new variable's entries so far.
declare_slot(vecid, count, a) ==
    LET drv   == CASE vecid = Z1R           -> Z1L
                   [] vecid = YJR           -> J1L
                   [] vecid \in {ZER, EXZ}  -> ZEL
                   [] vecid \in {YXR, X1R}  -> X1L
                   [] OTHER                 -> NUL
        msg   == CASE vecid = Z1R           -> "Z1R without Z1L"
                   [] vecid = YJR           -> "YJR without J1L"
                   [] vecid \in {ZER, EXZ}  -> "ZER or EXZ without ZEL"
                   [] vecid \in {YXR, X1R}  -> "YXR or X1R without X1L"
                   [] OTHER                 -> ""
    IN  IF vecid = 0
        THEN [a EXCEPT !.vecid = Append(@, 0), !.vecoff = Append(@, 0)]
        ELSE IF vecid <= NUL \/ vecid >= UNK
        THEN [a EXCEPT !.err = "Unrecognized vector id in PYTHON_declare"]
        ELSE IF drv # NUL
        THEN \* a follower: the driver's offset, no increment
             IF a.my[drv] < 0
             THEN [a EXCEPT !.err = msg, !.vecid = Append(@, vecid)]
             ELSE [a EXCEPT !.vecid = Append(@, vecid),
                            !.vecoff = Append(@, a.my[drv])]
        ELSE \* a driver, or a vector that drives only itself
             [a EXCEPT !.vecid = Append(@, vecid),
                       !.vecoff = Append(@, a.vecinfo[vecid]),
                       !.my = IF vecid \in {Z1L, J1L, ZEL, X1L}
                              THEN [@ EXCEPT ![vecid] = a.vecinfo[vecid]] ELSE @,
                       !.vecinfo = [@ EXCEPT ![vecid] = @ + count]]

declare_context(j, vi, count, a) == declare_slot(vlist[vi].vecid[j], count, a)

\* The loop: contexts j..6 in turn, stopping at the first fault.
RECURSIVE declare_contexts(_, _, _, _)
declare_contexts(j, vi, count, a) ==
    IF j > 6 THEN a
    ELSE CHOOSE r \in {IF b.err # "" THEN b ELSE declare_contexts(j + 1, vi, count, b) :
                          b \in {declare_context(j, vi, count, a)}} : TRUE

\* A wrong walk, which never compares for equality, to show that
\* C11_DuplicateIsFatal depends on the comparison made at every entry.
RECURSIVE insert_after_unchecked(_, _, _)
insert_after_unchecked(list, k, newvar) ==
    IF k + 1 > Len(list)
    THEN [list |-> Append(list, newvar), err |-> ""]
    ELSE IF strcasecmp(newvar.str, list[k + 1].str) < 0
    THEN [list |-> SubSeq(list, 1, k) \o <<newvar>> \o SubSeq(list, k + 1, Len(list)),
          err |-> ""]
    ELSE insert_after_unchecked(list, k + 1, newvar)

\* The sorted insertion at the end of PYTHON_declare: the new list, or the
\* fault.  The cases are the code's: empty list, before the head, before a
\* later entry, after the last.
RECURSIVE insert_after(_, _, _)
insert_after(list, k, newvar) ==
    \* cur is list[k]; nxt is list[k + 1]
    IF k + 1 > Len(list)
    THEN [list |-> Append(list, newvar), err |-> ""]
    ELSE IF strcasecmp(newvar.str, list[k + 1].str) = 0
    THEN [list |-> list, err |-> "Multiple definitions of variable in PYTHON_declare"]
    ELSE IF strcasecmp(newvar.str, list[k + 1].str) < 0
    THEN [list |-> SubSeq(list, 1, k) \o <<newvar>> \o SubSeq(list, k + 1, Len(list)),
          err |-> ""]
    ELSE insert_after(list, k + 1, newvar)

\* A wrong insertion, at the end of the list whatever the name, to show that
\* C10_RegistrySorted depends on the sorted insertion.
registry_append(list, newvar) == [list |-> Append(list, newvar), err |-> ""]

registry_insert(list, newvar) ==
    IF list = <<>>
    THEN [list |-> <<newvar>>, err |-> ""]
    ELSE IF strcasecmp(newvar.str, list[1].str) = 0
    THEN [list |-> list, err |-> "Multiple definitions of variable in PYTHON_declare"]
    ELSE IF strcasecmp(newvar.str, list[1].str) < 0
    THEN [list |-> <<newvar>> \o list, err |-> ""]
    ELSE insert_after(list, 1, newvar)

\* The walk of get_msgname down the sorted list: the position of the entry
\* named str, or 0 when the walk meets a greater name or the end first.
RECURSIVE find_var(_, _, _)
find_var(str, list, k) ==
    IF k > Len(list) THEN 0
    ELSE IF strcasecmp(str, list[k].str) = 0 THEN k
    ELSE IF strcasecmp(str, list[k].str) < 0 THEN 0
    ELSE find_var(str, list, k + 1)

\* A wrong lookup, which hands out whatever the entry holds for the context,
\* to show that C12_ContextChecked depends on the test of the vector id.
msgname_of_any_context(var, lhs, dt, sel) ==
    IF dt < -1
    THEN [err |-> "lag(lag(var)) cannot be used with msgproc", vecid |-> 0, off |-> 0]
    ELSE IF dt > 1
    THEN [err |-> "lead(lead(var)) cannot be used with msgproc", vecid |-> 0, off |-> 0]
    ELSE [err |-> "", vecid |-> var.vecid[sel + 1], off |-> var.vecoff[sel + 1]]

\* The rest of get_msgname, for the entry found.  sel counts from 0.
msgname_of(var, lhs, dt, sel) ==
    IF dt < -1
    THEN [err |-> "lag(lag(var)) cannot be used with msgproc", vecid |-> 0, off |-> 0]
    ELSE IF dt > 1
    THEN [err |-> "lead(lead(var)) cannot be used with msgproc", vecid |-> 0, off |-> 0]
    ELSE IF var.vecid[sel + 1] = 0
    THEN [err |-> "Invalid context for variable", vecid |-> 0, off |-> 0]
    ELSE [err |-> "", vecid |-> var.vecid[sel + 1], off |-> var.vecoff[sel + 1]]

\* get_msgname: the vector and the offset of a reference to `str` in context
\* (lhs, dt), or the fatal error.
get_msgname(str, lhs, dt, v_head) ==
    IF v_head = <<>>
    THEN [err |-> "Variable list is blank in get_msgname", vecid |-> 0, off |-> 0]
    ELSE CHOOSE r \in
           {IF k = 0
            THEN [err |-> "Name not in variable list in get_msgname", vecid |-> 0, off |-> 0]
            ELSE msgname_of(v_head[k], lhs, dt, 1 + dt + (IF lhs THEN 0 ELSE 3)) :
               k \in {find_var(str, v_head, 1)}} : TRUE

\* PYTHON_declare, from the sorted insertion on: p1 are the statics after the
\* allocation, ins the outcome of the insertion.
declare_insert(p1, ins) ==
    IF ins.err # "" THEN [st |-> p1, err |-> ins.err]
    ELSE [st |-> [p1 EXCEPT !.v_head = ins.list], err |-> ""]

\* PYTHON_declare, from the loop over the contexts on: a is the loop's outcome.
declare_alloc(sym, p, count, of_type, vi, unit, a) ==
    IF a.err # ""
    THEN [st |-> [p EXCEPT !.vecinfo = a.vecinfo], err |-> a.err]
    ELSE declare_insert(
             [p EXCEPT !.vecinfo = a.vecinfo,
                       !.MSGPROC_vars = IF istype(sym, "var") THEN @ + count ELSE @],
             registry_insert(p.v_head,
                 [str |-> sym.name, type |-> vlist[vi].type, unit |-> unit,
                  vecid |-> a.vecid, vecoff |-> a.vecoff, stype |-> sym.type,
                  of_type |-> of_type,
                  varsnum |-> IF istype(sym, "var") THEN p.MSGPROC_vars ELSE 0]))

\* A wrong declare, which takes the first kind of a variable that has several,
\* to show that C22_KindTags depends on the count of the matches.
declare_ident_first_kind(sym, p, count, of_type, matches, unitix) ==
    IF count < 1
    THEN [st |-> p, err |-> "Symbol has no element count in PYTHON_declare"]
    ELSE IF of_type \in {"o_err", "o_unk"}
    THEN [st |-> p, err |-> "Variable has unexpected type"]
    ELSE IF istype(sym, "var") /\ matches = {}
    THEN [st |-> p, err |-> "No type declared for variable"]
    ELSE IF istype(sym, "var") /\ unitix = {}
    THEN [st |-> p, err |-> "No units given for variable"]
    ELSE CHOOSE r \in
           {declare_alloc(sym, p, count, of_type, vi,
                          IF istype(sym, "par") THEN ""
                          ELSE units[CHOOSE i \in unitix : \A m \in unitix : i <= m],
                          declare_contexts(1, vi, count,
                              [vecinfo |-> p.vecinfo,
                               my |-> [v \in {Z1L, J1L, ZEL, X1L} |-> -1],
                               vecid |-> <<>>, vecoff |-> <<>>, err |-> ""])) :
              vi \in {IF istype(sym, "par") THEN KindIndex("par")
                      ELSE CHOOSE i \in matches : \A m \in matches : i <= m}} : TRUE

\* PYTHON_declare, for a parameter or a variable: matches are the kinds and
\* unitix the units among its attributes (as indexes in vlist and units).
declare_ident(sym, p, count, of_type, matches, unitix) ==
    IF count < 1
    THEN [st |-> p, err |-> "Symbol has no element count in PYTHON_declare"]
    ELSE IF of_type \in {"o_err", "o_unk"}
    THEN [st |-> p, err |-> "Variable has unexpected type"]
    ELSE IF istype(sym, "var") /\ Cardinality(matches) > 1
    THEN [st |-> p, err |-> "Multiple variable types for variable"]
    ELSE IF istype(sym, "var") /\ matches = {}
    THEN [st |-> p, err |-> "No type declared for variable"]
    ELSE IF istype(sym, "var") /\ unitix = {}
    THEN [st |-> p, err |-> "No units given for variable"]
    ELSE CHOOSE r \in
           {declare_alloc(sym, p, count, of_type, vi,
                          IF istype(sym, "par") THEN ""
                          ELSE units[CHOOSE i \in unitix : \A m \in unitix : i <= m],
                          declare_contexts(1, vi, count,
                              [vecinfo |-> p.vecinfo,
                               my |-> [v \in {Z1L, J1L, ZEL, X1L} |-> -1],
                               vecid |-> <<>>, vecoff |-> <<>>, err |-> ""])) :
              vi \in {IF istype(sym, "par") THEN KindIndex("par")
                      ELSE CHOOSE i \in matches : TRUE}} : TRUE

\* PYTHON_declare: the statics after declaring sym, and the fatal error if any.
PYTHON_declare(sym, p) ==
    IF istype(sym, "set") THEN [st |-> p, err |-> ""]
    ELSE IF ~isident(sym)
    THEN [st |-> p, err |-> "Invalid symbol type passed to PYTHON_declare"]
    ELSE CHOOSE r \in
           {declare_ident(sym, p, count, of_type, matches, unitix) :
              count \in {symsize(sym)},
              of_type \in {setup_pythonname(sym.name, sym.domain)},
              matches \in {{i \in 1..Len(vlist) : ismember(vlist[i].type, symattrib(sym))}},
              unitix \in {{i \in 1..Len(units) : ismember(units[i], symattrib(sym))}}} : TRUE

\* PYTHON_begin_file: the vector lengths are set to the origin.
PYTHON_begin_file(p) ==
    [p EXCEPT !.vecinfo = [i \in NUL..UNK |-> PYTHON_ORIGIN]]

\* A wrong begin_block, which starts the next block at the end of this one,
\* to show that C27_EquationCounting depends on the + 1.
PYTHON_begin_block_overlapping(eq, p) ==
    LET nstart  == p.MSGPROC_scalar
        nscalar == eqncount(eq)
        nend    == nstart + nscalar - 1
    IN  [st |-> [p EXCEPT !.MSGPROC_block = @ + 1, !.MSGPROC_scalar = nend],
         err |-> IF islvalue(eq) THEN "" ELSE "LHS of an equation is not a variable"]

\* PYTHON_begin_block: the block and scalar equation counters move on.
PYTHON_begin_block(eq, p) ==
    LET nstart  == p.MSGPROC_scalar
        nscalar == eqncount(eq)
        nend    == nstart + nscalar - 1
    IN  [st |-> [p EXCEPT !.MSGPROC_block = @ + 1, !.MSGPROC_scalar = nend + 1],
         err |-> IF islvalue(eq) THEN "" ELSE "LHS of an equation is not a variable"]

\* PYTHON_end_file: the three counts and the verdict.
PYTHON_ecount(p) == p.MSGPROC_scalar - 1

\* A wrong count, which leaves X1L out, to show that C8_Reconciliation
\* depends on the four vectors.
PYTHON_vcount_without_X1L(p) ==
    p.vecinfo[Z1L] + p.vecinfo[ZEL] + p.vecinfo[J1L] - 3 * PYTHON_ORIGIN

PYTHON_vcount(p) ==
    p.vecinfo[Z1L] + p.vecinfo[ZEL] + p.vecinfo[J1L] + p.vecinfo[X1L] - 4 * PYTHON_ORIGIN

\* A wrong count, which takes every endogenous variable as used, to show that
\* C9_RemovalFailsUnlessOrphan depends on the unused variables.
PYTHON_ucount_none == SumSeq([i \in 1..Len(symtab.var) |-> 0])

PYTHON_ucount ==
    SumSeq([i \in 1..Len(symtab.var) |->
               IF ismember("end", symattrib(symtab.var[i])) /\ ~isused(symtab.var[i])
               THEN symsize(symtab.var[i]) ELSE 0])

PYTHON_end_file(p) ==
    IF PYTHON_ecount(p) # PYTHON_vcount(p) - PYTHON_ucount
    THEN "Counts of equations and endogenous variables do not match."
    ELSE ""

\* PYTHON_show_symbol for each name of the equation, in rendering order (left
\* side first): the first fatal error, or "".
RECURSIVE PYTHON_show_refs(_, _, _)
PYTHON_show_refs(refs, i, p) ==
    IF i > Len(refs) THEN ""
    ELSE CHOOSE e \in {IF r.err # "" THEN r.err ELSE PYTHON_show_refs(refs, i + 1, p) :
                          r \in {get_msgname(refs[i].name, refs[i].lhs, refs[i].dt,
                                             p.v_head)}} : TRUE

\* The same walk, keeping what get_msgname returned for each name, up to and
\* including the first fatal error.
RECURSIVE PYTHON_show_names(_, _, _)
PYTHON_show_names(refs, i, p) ==
    IF i > Len(refs) THEN <<>>
    ELSE CHOOSE s \in {IF r.err # "" THEN <<r>> ELSE <<r>> \o PYTHON_show_names(refs, i + 1, p) :
                          r \in {get_msgname(refs[i].name, refs[i].lhs, refs[i].dt,
                                             p.v_head)}} : TRUE

-----------------------------------------------------------------------------
(* tablo.c and html.c: the statics their hooks keep.                       *)

Tablo_declare(sym, t) ==
    [t EXCEPT !.tabsets = IF istype(sym, "set") THEN Append(@, sym.name) ELSE @,
              !.Tablo_var = IF istype(sym, "var") THEN @ + 1 ELSE @,
              !.Tablo_par = IF istype(sym, "par") THEN @ + 1 ELSE @]

tablo_show_symbol(sym) == ~do_calc \/ isused(sym)

\* Tablo_writedecs ends the run when a variable it shows needs a read
\* statement and has no header attribute.
Tablo_writedecs_err ==
    IF ~do_calc /\ \E i \in 1..Len(symtab.var) :
                       /\ tablo_show_symbol(symtab.var[i])
                       /\ Len(symattrib(symtab.var[i])) < 1
    THEN "Header required for symbol"
    ELSE ""

\* isrhs: the symbol is on the right-hand side of some equation.
isrhs(sym) ==
    \E i \in 1..Len(eqns) : \E j \in 1..Len(eqns[i].refs) :
        eqns[i].refs[j].name = sym.name /\ ~eqns[i].refs[j].lhs

\* tablo_type: the kind of header, from the first character of the first
\* attribute.
tablo_type(sym) ==
    IF Len(symattrib(sym)) > 0
    THEN CASE Bytes[symattrib(sym)[1]][1] = 65 -> "h_aen"
           [] Bytes[symattrib(sym)[1]][1] = 66 -> "h_aex"
           [] Bytes[symattrib(sym)[1]][1] = 67 -> "h_apa"
           [] Bytes[symattrib(sym)[1]][1] = 73 -> "h_int"
           [] Bytes[symattrib(sym)[1]][1] = 75 -> "h_kal"
           [] Bytes[symattrib(sym)[1]][1] = 77 -> "h_mak"
           [] Bytes[symattrib(sym)[1]][1] = 78 -> "h_end"
           [] Bytes[symattrib(sym)[1]][1] = 79 -> "h_iot"
           [] Bytes[symattrib(sym)[1]][1] = 80 -> "h_par"
           [] Bytes[symattrib(sym)[1]][1] = 84 -> "h_ext"
           [] Bytes[symattrib(sym)[1]][1] = 88 -> "h_exo"
           [] OTHER -> "h_unk"
    ELSE "h_unk"

\* A wrong file name, 'base' for the headers in B and for those not in the
\* list, to show that C23_HeaderFiles depends on tablo_filename.
tablo_filename_base(har) ==
    CASE har = "h_aen" -> "impl"   [] har = "h_aex" -> "base"    [] har = "h_apa" -> "addpar"
      [] har = "h_int" -> "inter"  [] har = "h_kal" -> "kalman"  [] har = "h_mak" -> "make"
      [] har = "h_end" -> "endog"  [] har = "h_iot" -> "iotable" [] har = "h_par" -> "param"
      [] har = "h_ext" -> "extra"  [] har = "h_exo" -> "exog"
      [] OTHER -> "base"

tablo_filename(har) ==
    CASE har = "h_aen" -> "impl"   [] har = "h_aex" -> "impl"    [] har = "h_apa" -> "addpar"
      [] har = "h_int" -> "inter"  [] har = "h_kal" -> "kalman"  [] har = "h_mak" -> "make"
      [] har = "h_end" -> "endog"  [] har = "h_iot" -> "iotable" [] har = "h_par" -> "param"
      [] har = "h_ext" -> "extra"  [] har = "h_exo" -> "exog"
      [] OTHER -> "other"

\* tablo_need_read, for a symbol with a header or in calc mode (without one
\* and not in calc mode it ends the run: Tablo_writedecs_err).
tablo_need_read(sym) ==
    IF do_calc THEN isrhs(sym) /\ Len(symattrib(sym)) > 0 ELSE TRUE

\* The headers Tablo_writedecs makes up: H000, H001, ...
MadeUpHeader(hdr) == <<"H000", "H001", "H002", "H003">>[hdr + 1]

\* The read statements of the parameters from the k-th on: each from the
\* file param, under its one attribute or under a header made up.
RECURSIVE writedecs_par_reads(_, _)
writedecs_par_reads(k, hdr) ==
    IF k > Len(symtab.par) THEN <<>>
    ELSE IF ~tablo_show_symbol(symtab.par[k]) THEN writedecs_par_reads(k + 1, hdr)
    ELSE IF Len(symattrib(symtab.par[k])) = 1
    THEN <<[name |-> symtab.par[k].name, type |-> "par", file |-> "param",
            header |-> symattrib(symtab.par[k])[1]]>>
         \o writedecs_par_reads(k + 1, hdr)
    ELSE <<[name |-> symtab.par[k].name, type |-> "par", file |-> "param",
            header |-> MadeUpHeader(hdr)]>>
         \o writedecs_par_reads(k + 1, hdr + 1)

\* The read statements of the variables: each from the file of its header.
writedecs_var_reads ==
    [k \in 1..Len(symtab.var) |->
        [name |-> symtab.var[k].name, type |-> "var",
         file |-> tablo_filename(tablo_type(symtab.var[k])),
         header |-> IF Len(symattrib(symtab.var[k])) > 0 THEN symattrib(symtab.var[k])[1]
                    ELSE ""]]

\* The read statements Tablo_writedecs writes: those of the parameters, and
\* unless a variable without a header has ended the run, those of the
\* variables that are shown and need one.
Tablo_writedecs_reads ==
    writedecs_par_reads(1, 0)
    \o (IF Tablo_writedecs_err # "" THEN <<>>
        ELSE SelectSeq(writedecs_var_reads,
                       LAMBDA r : \E v \in Range(symtab.var) :
                                     /\ v.name = r.name
                                     /\ tablo_show_symbol(v)
                                     /\ tablo_need_read(v)))

Tablo_begin_block(eq, t) ==
    LET first == t.Tablo_eqn = 0
        t1 == [t EXCEPT !.decs = IF first THEN @ + 1 ELSE @,
                        !.reads = IF first THEN Tablo_writedecs_reads ELSE @]
    IN  IF first /\ Tablo_writedecs_err # ""
        THEN [st |-> t1, err |-> Tablo_writedecs_err]
        ELSE [st |-> [t1 EXCEPT !.Tablo_eqn = @ + 1,
                                !.Tablo_scalar_eqn = @ + eqncount(eq)],
              err |-> IF do_calc /\ ~islvalue(eq)
                      THEN "LHS of equation in calc mode is not a variable"
                      ELSE ""]

HTML_declare(sym, h) ==
    [h EXCEPT !.htmlsets = IF istype(sym, "set") THEN Append(@, sym.name) ELSE @]

\* A wrong begin_block, which writes the declarations at every block, to
\* show that C30_DeferredDeclarations depends on the test of the counter.
HTML_begin_block_always(eq, h) ==
    LET nstart  == h.HTML_scalar
        nscalar == eqncount(eq)
        nend    == nstart + nscalar - 1
    IN  [h EXCEPT !.decs = @ + 1,
                  !.HTML_block = @ + 1,
                  !.HTML_scalar = nend + 1]

HTML_begin_block(eq, h) ==
    LET nstart  == h.HTML_scalar
        nscalar == eqncount(eq)
        nend    == nstart + nscalar - 1
    IN  [h EXCEPT !.decs = IF h.HTML_block = 1 THEN @ + 1 ELSE @,
                  !.HTML_block = @ + 1,
                  !.HTML_scalar = nend + 1]

-----------------------------------------------------------------------------
(* The capability table and the setups that fill it.                       *)

Slots == {"begin_file", "end_file", "declare", "begin_block", "begin_eqn", "end_eqn",
          "begin_func", "end_func", "show_symbol", "show_node", "show_eq",
          "write_file", "wrap_write", "spprint"}

\* lang_<slot>(impl): the installer of one slot.
install(tab, slot, impl) == [tab EXCEPT ![slot] = impl]

RECURSIVE install_all(_, _)
install_all(tab, pairs) ==
    IF pairs = <<>> THEN tab
    ELSE install_all(install(tab, Head(pairs)[1], Head(pairs)[2]), Tail(pairs))

Default_hooks ==
    << <<"begin_file", "Default_begin_file">>, <<"end_file", "Default_end_file">>,
       <<"declare", "Default_declare">>, <<"begin_block", "Default_begin_block">>,
       <<"begin_eqn", "Default_begin_eqn">>, <<"end_eqn", "Default_end_eqn">>,
       <<"begin_func", "Default_begin_func">>, <<"end_func", "Default_end_func">>,
       <<"show_symbol", "0">>, <<"show_node", "Default_show_node">>,
       <<"show_eq", "Default_show_eq">>,
       <<"write_file", "Default_wrap_write">>, <<"write_file", "Default_write_file">>,
       <<"spprint", "Default_spprint">> >>

Python_hooks ==
    << <<"begin_file", "PYTHON_begin_file">>, <<"end_file", "PYTHON_end_file">>,
       <<"declare", "PYTHON_declare">>, <<"begin_eqn", "PYTHON_begin_eqn">>,
       <<"end_eqn", "PYTHON_end_eqn">>, <<"begin_block", "PYTHON_begin_block">>,
       <<"show_symbol", "PYTHON_show_symbol">>,
       <<"write_file", "PYTHON_wrap_write">>, <<"write_file", "PYTHON_write_file">>,
       <<"show_eq", "PYTHON_show_eq">>, <<"show_node", "PYTHON_show_node">> >>

Tablo_hooks ==
    << <<"begin_file", "Tablo_begin_file">>, <<"end_file", "Tablo_end_file">>,
       <<"declare", "Tablo_declare">>, <<"begin_block", "Tablo_begin_block">>,
       <<"end_eqn", "Tablo_end_eqn">>, <<"begin_func", "Tablo_begin_func">>,
       <<"show_symbol", "Tablo_show_symbol">> >>

Html_hooks ==
    << <<"begin_file", "HTML_begin_file">>, <<"end_file", "HTML_end_file">>,
       <<"declare", "HTML_declare">>, <<"begin_block", "HTML_begin_block">>,
       <<"end_eqn", "HTML_end_eqn">>, <<"begin_func", "HTML_begin_func">>,
       <<"end_func", "HTML_end_func">>, <<"show_symbol", "HTML_show_symbol">>,
       <<"spprint", "HTML_spprint">>, <<"write_file", "HTML_write_file">>,
       <<"show_eq", "HTML_show_eq">>, <<"show_node", "HTML_show_node">> >>

driver_vars == <<sym_k, eq_i, neqns, cart, py, tablo, html, calls, fatal>>

model_vars == <<lang, do_calc, symtab, eqns, run, prior>>

text_vars == <<wrap, render>>

Default_setup ==
    /\ pc = "start"
    /\ codegen' = install_all(codegen, Default_hooks)
    /\ pc' = IF lang = "default" THEN "begin_file" ELSE "lang_setup"
    /\ UNCHANGED <<eqn_style, sum_style, driver_vars, model_vars, text_vars>>

Python_setup ==
    /\ pc = "lang_setup" /\ lang = "python"
    /\ codegen' = install_all(codegen, Python_hooks)
    /\ eqn_style' = "scalar"
    /\ sum_style' = "scalar"
    /\ pc' = "begin_file"
    /\ UNCHANGED <<driver_vars, model_vars, text_vars>>

Tablo_setup ==
    /\ pc = "lang_setup" /\ lang = "tablo"
    /\ codegen' = install_all(codegen, Tablo_hooks)
    /\ eqn_style' = "vector"
    /\ sum_style' = "vector"
    /\ pc' = "begin_file"
    /\ UNCHANGED <<driver_vars, model_vars, text_vars>>

Html_setup ==
    /\ pc = "lang_setup" /\ lang = "html"
    /\ codegen' = install_all(codegen, Html_hooks)
    /\ eqn_style' = "vector"
    /\ sum_style' = "vector"
    /\ pc' = "begin_file"
    /\ UNCHANGED <<driver_vars, model_vars, text_vars>>


-----------------------------------------------------------------------------
(* write_file, the driver.  Default_write_file, PYTHON_write_file and      *)
(* HTML_write_file are the same text line for line but for the skip test,  *)
(* which HTML_write_file has commented out.                                *)

Call(op, eq, sets, subs, sym) ==
    [op |-> op, eq |-> eq, sets |-> sets, subs |-> subs, sym |-> sym, out |-> <<>>]

NoSym == [name |-> "", type |-> ""]

SymId(sym) == [name |-> sym.name, type |-> sym.type]

\* A wrong order, variables before parameters, to show that C1_RunOrder
\* depends on the order of the loops.
DeclareSeq_vars_first == symtab.set \o symtab.var \o symtab.par

\* The symbols in the order the three declare loops pass them on.
DeclareSeq == symtab.set \o symtab.par \o symtab.var

Default_skip(eq) == hasundec(eq) \/ ~istimeok(eq)

PYTHON_skip(eq) == hasundec(eq) \/ ~istimeok(eq)

\* A wrong skip test for HTML, the one of the other two drivers, to show that
\* C5_SkipPolicy depends on HTML skipping nothing.
HTML_skip_as_default(eq) == hasundec(eq) \/ ~istimeok(eq)

HTML_skip(eq) == FALSE

SkipEqn(eq) ==
    CASE codegen.write_file = "PYTHON_write_file" -> PYTHON_skip(eq)
      [] codegen.write_file = "HTML_write_file"   -> HTML_skip(eq)
      [] OTHER                                    -> Default_skip(eq)

is_eqn_set == eqn_style # "unset"
is_sum_set == sum_style # "unset"
is_eqn_vector == eqn_style = "vector"
is_eqn_scalar == eqn_style = "scalar"

\* show_eq (Default_show_eq, PYTHON_show_eq, HTML_show_eq): both sides are
\* rendered, every name through the show_symbol hook, then begin_eqn, the text,
\* end_eqn.  The fatal error of the rendering, if any, and the calls added to
\* the history.
show_eq_err(i) ==
    IF codegen.show_symbol = "PYTHON_show_symbol"
    THEN PYTHON_show_refs(eqns[i].refs, 1, py)
    ELSE ""

\* What show_symbol returned for each name of equation i.
show_names(i) ==
    IF codegen.show_symbol = "PYTHON_show_symbol"
    THEN PYTHON_show_names(eqns[i].refs, 1, py)
    ELSE <<>>

show_eq(i, eqsets, sublist, err) ==
    IF err # ""
    THEN <<[Call("show_eq", i, eqsets, sublist, NoSym) EXCEPT !.out = show_names(i)]>>
    ELSE <<[Call("show_eq", i, eqsets, sublist, NoSym) EXCEPT !.out = show_names(i)],
           Call("begin_eqn", i, <<>>, <<>>, NoSym),
           Call("end_eqn", i, <<>>, <<>>, NoSym)>>

write_file_begin_file ==
    /\ pc = "begin_file"
    /\ calls' = Append(calls, Call("begin_file", 0, <<>>, <<>>, NoSym))
    /\ py' = IF codegen.begin_file = "PYTHON_begin_file" THEN PYTHON_begin_file(py) ELSE py
    /\ pc' = "validate"
    /\ UNCHANGED <<codegen, eqn_style, sum_style, sym_k, eq_i, neqns, cart, tablo,
                   html, fatal, model_vars, text_vars>>

\* A wrong validation, which lets unset styles pass, to show that
\* C6_ValidatedAfterBeginFile depends on the validation.
write_file_validate_off ==
    /\ pc = "validate"
    /\ fatal' = ""
    /\ pc' = IF Len(DeclareSeq) > 0 THEN "declare" ELSE "eqn"
    /\ UNCHANGED <<codegen, eqn_style, sum_style, sym_k, eq_i, neqns, cart, py, tablo,
                   html, calls, model_vars, text_vars>>

write_file_validate ==
    /\ pc = "validate"
    /\ fatal' = IF ~is_eqn_set THEN "Equation style has not been set"
                ELSE IF ~is_sum_set THEN "Summation style has not been set"
                ELSE ""
    /\ pc' = IF fatal' # "" THEN "abort"
             ELSE IF Len(DeclareSeq) > 0 THEN "declare" ELSE "eqn"
    /\ UNCHANGED <<codegen, eqn_style, sum_style, sym_k, eq_i, neqns, cart, py, tablo,
                   html, calls, model_vars, text_vars>>

\* One turn of the three declare loops (sets, parameters, variables).
write_file_declare ==
    /\ pc = "declare"
    /\ sym_k < Len(DeclareSeq)
    /\ \E sym \in {DeclareSeq[sym_k + 1]} :
         /\ calls' = Append(calls, Call("declare", 0, <<>>, <<>>, SymId(sym)))
         /\ tablo' = IF codegen.declare = "Tablo_declare"
                     THEN Tablo_declare(sym, tablo) ELSE tablo
         /\ html' = IF codegen.declare = "HTML_declare"
                    THEN HTML_declare(sym, html) ELSE html
         /\ \E r \in {IF codegen.declare = "PYTHON_declare"
                      THEN PYTHON_declare(sym, py)
                      ELSE [st |-> py, err |-> ""]} :
              /\ py' = r.st
              /\ fatal' = r.err
              /\ pc' = IF r.err # "" THEN "abort"
                       ELSE IF sym_k + 1 < Len(DeclareSeq) THEN "declare" ELSE "eqn"
    /\ sym_k' = sym_k + 1
    /\ UNCHANGED <<codegen, eqn_style, sum_style, eq_i, neqns, cart, model_vars, text_vars>>

\* The begin_block hook: the statics of the three languages after it, and the
\* fatal error if any.
begin_block(eq) ==
    CHOOSE r \in
      {[py |-> rp.st, tablo |-> rt.st,
        html |-> IF codegen.begin_block = "HTML_begin_block"
                 THEN HTML_begin_block(eq, html) ELSE html,
        err |-> IF rp.err # "" THEN rp.err ELSE rt.err] :
         rp \in {IF codegen.begin_block = "PYTHON_begin_block"
                 THEN PYTHON_begin_block(eq, py) ELSE [st |-> py, err |-> ""]},
         rt \in {IF codegen.begin_block = "Tablo_begin_block"
                 THEN Tablo_begin_block(eq, tablo) ELSE [st |-> tablo, err |-> ""]}} : TRUE

\* The head of the equation loop: the next equation is skipped, or its block
\* is begun and the vector or the scalar branch is entered.
write_file_next_eqn ==
    /\ pc = "eqn"
    /\ eq_i < Len(eqns)
    /\ eq_i' = eq_i + 1
    /\ \E eq \in {eqns[eq_i + 1]} :
         IF SkipEqn(eq)
         THEN /\ pc' = "eqn"
              /\ UNCHANGED <<neqns, cart, py, tablo, html, calls, fatal>>
         ELSE \E r \in {begin_block(eq)} :
              /\ calls' = Append(calls, Call("begin_block", eq_i + 1, <<>>, <<>>, NoSym))
              /\ py' = r.py
              /\ tablo' = r.tablo
              /\ html' = r.html
              /\ fatal' = r.err
              /\ IF r.err # ""
                 THEN pc' = "abort" /\ UNCHANGED <<neqns, cart>>
                 ELSE IF is_eqn_vector
                 THEN pc' = "show_vector" /\ UNCHANGED <<neqns, cart>>
                 ELSE /\ pc' = "show_scalar"
                      /\ neqns' = eqncount(eq)
                      /\ cart' = CartTuples(eqnsets(eq))
    /\ UNCHANGED <<codegen, eqn_style, sum_style, sym_k, model_vars, text_vars>>

\* A wrong vector branch, which shows the first tuple of the product, to show
\* that C4_VectorOnce depends on the empty subscript list.
write_file_show_vector_first_tuple ==
    /\ pc = "show_vector"
    /\ \E err \in {show_eq_err(eq_i)} :
         /\ calls' = calls \o show_eq(eq_i, eqnsets(eqns[eq_i]),
                                     Head(CartTuples(eqnsets(eqns[eq_i]))), err)
         /\ fatal' = err
         /\ pc' = IF err # "" THEN "abort" ELSE "eqn"
    /\ UNCHANGED <<codegen, eqn_style, sum_style, sym_k, eq_i, neqns, cart, py, tablo,
                   html, model_vars, text_vars>>

\* The vector branch: one show_eq with the set list and no subscripts.
write_file_show_vector ==
    /\ pc = "show_vector"
    /\ \E err \in {show_eq_err(eq_i)} :
         /\ calls' = calls \o show_eq(eq_i, eqnsets(eqns[eq_i]), <<>>, err)
         /\ fatal' = err
         /\ pc' = IF err # "" THEN "abort" ELSE "eqn"
    /\ UNCHANGED <<codegen, eqn_style, sum_style, sym_k, eq_i, neqns, cart, py, tablo,
                   html, model_vars, text_vars>>

\* A wrong loop, which takes the tuples from the far end, to show that
\* C2_CartesianOrder depends on the order of the calls.
write_file_show_scalar_backwards ==
    /\ pc = "show_scalar"
    /\ cart # <<>>
    /\ \E err \in {show_eq_err(eq_i)} :
         /\ calls' = calls \o show_eq(eq_i, eqnsets(eqns[eq_i]), cart[Len(cart)], err)
         /\ fatal' = err
         /\ pc' = IF err # "" THEN "abort" ELSE "show_scalar"
    /\ cart' = SubSeq(cart, 1, Len(cart) - 1)
    /\ neqns' = neqns - 1
    /\ UNCHANGED <<codegen, eqn_style, sum_style, sym_k, eq_i, py, tablo, html,
                   model_vars, text_vars>>

\* One turn of the while loop: cart_next returns a tuple, show_eq, neqns--.
write_file_show_scalar ==
    /\ pc = "show_scalar"
    /\ cart # <<>>
    /\ \E err \in {show_eq_err(eq_i)} :
         /\ calls' = calls \o show_eq(eq_i, eqnsets(eqns[eq_i]), Head(cart), err)
         /\ fatal' = err
         /\ pc' = IF err # "" THEN "abort" ELSE "show_scalar"
    /\ cart' = Tail(cart)
    /\ neqns' = neqns - 1
    /\ UNCHANGED <<codegen, eqn_style, sum_style, sym_k, eq_i, py, tablo, html,
                   model_vars, text_vars>>

\* A wrong end of the loop, which lets every count pass, to show that
\* C3_CountChecked depends on the check.
write_file_check_count_off ==
    /\ pc = "show_scalar"
    /\ cart = <<>>
    /\ fatal' = ""
    /\ pc' = "eqn"
    /\ UNCHANGED <<codegen, eqn_style, sum_style, sym_k, eq_i, neqns, cart, py, tablo,
                   html, calls, model_vars, text_vars>>

\* cart_next returns 0: the count is checked.
write_file_check_count ==
    /\ pc = "show_scalar"
    /\ cart = <<>>
    /\ fatal' = IF neqns # 0 THEN "Incorrect number of equations written" ELSE ""
    /\ pc' = IF neqns # 0 THEN "abort" ELSE "eqn"
    /\ UNCHANGED <<codegen, eqn_style, sum_style, sym_k, eq_i, neqns, cart, py, tablo,
                   html, calls, model_vars, text_vars>>

write_file_end_file ==
    /\ pc = "eqn"
    /\ eq_i = Len(eqns)
    /\ calls' = Append(calls, Call("end_file", 0, <<>>, <<>>, NoSym))
    /\ fatal' = IF codegen.end_file = "PYTHON_end_file" THEN PYTHON_end_file(py) ELSE ""
    /\ pc' = IF fatal' # "" THEN "abort" ELSE "done"
    /\ UNCHANGED <<codegen, eqn_style, sum_style, sym_k, eq_i, neqns, cart, py, tablo,
                   html, model_vars, text_vars>>


-----------------------------------------------------------------------------
(* wrap_write: Default_wrap_write and PYTHON_wrap_write, the same text.    *)
(* Strings are sequences of characters.  The frame holds the arguments     *)
(* line, addcr and commaok, the option get_line_length() returns, the      *)
(* local rest, and what has been written to the code file; `breaks` are    *)
(* the places in it of the newlines the wrapper put in, and `seen` the     *)
(* values rest had at the head of each turn of the loop.                   *)

isspace(ch) == ch \in {" ", "\t", "\n", "\f", "\r"}

\* strcspn(s, "\n"): the number of characters before the first newline.
strcspn(s) ==
    IF \E i \in 1..Len(s) : s[i] = "\n"
    THEN (CHOOSE i \in 1..Len(s) : s[i] = "\n" /\ \A j \in 1..(i - 1) : s[j] # "\n") - 1
    ELSE Len(s)

do_wrap(ch, commaok) ==
    \/ isspace(ch)
    \/ ch \in {"+", "-", "*", "/", "=", "^"}
    \/ (commaok /\ ch = ",")

\* The for loop: the offset end - rest it stops at, 0 when it runs out.
wrap_end(rest, len, commaok) ==
    IF \E e \in 1..len : do_wrap(rest[e + 1], commaok)
    THEN CHOOSE e \in 1..len : /\ do_wrap(rest[e + 1], commaok)
                              /\ \A f \in (e + 1)..len : ~do_wrap(rest[f + 1], commaok)
    ELSE 0

\* rest fits: it is written, with a newline if addcr, and the call returns.
wrap_fits(w) ==
    [w EXCEPT !.code = @ \o w.rest \o (IF w.addcr THEN <<"\n">> ELSE <<>>),
              !.pc = "returned"]

\* A wrong step, which leaves rest at the newline found, to show that
\* C28_WrapWriteTerminates depends on rest passing over it.
wrap_newline_in_place(w, n) ==
    [w EXCEPT !.code = @ \o SubSeq(w.rest, 1, n) \o <<"\n">>,
              !.rest = SubSeq(w.rest, n + 1, Len(w.rest))]

\* A newline of the text comes soon enough: the text up to it is written.
wrap_newline(w, n) ==
    [w EXCEPT !.code = @ \o SubSeq(w.rest, 1, n) \o <<"\n">>,
              !.rest = SubSeq(w.rest, n + 2, Len(w.rest))]

\* A wrong break, which keeps the character found on the line it ends, to
\* show that C13_BreakBeforeBreakChar depends on rest starting at it.
wrap_break_after(w, e) ==
    IF e = 0 THEN [w EXCEPT !.pc = "fatal"]
    ELSE [w EXCEPT !.code = @ \o SubSeq(w.rest, 1, e + 1) \o <<"\n", " ", " ", " ">>,
                   !.breaks = @ \cup {Len(w.code) + e + 2},
                   !.rest = SubSeq(w.rest, e + 2, Len(w.rest))]

\* A wrong break, which takes the character found for the break itself and
\* goes on after it, to show that C29_WrapPreservesContent depends on the
\* character being put back.
wrap_break_dropping(w, e) ==
    IF e = 0 THEN [w EXCEPT !.pc = "fatal"]
    ELSE [w EXCEPT !.code = @ \o SubSeq(w.rest, 1, e) \o <<"\n", " ", " ", " ">>,
                   !.breaks = @ \cup {Len(w.code) + e + 1},
                   !.rest = SubSeq(w.rest, e + 2, Len(w.rest))]

\* The outcome of the for loop: the text before the character found is
\* written, then a newline and three spaces, and rest starts at that
\* character; or no character was found, which is fatal.
wrap_break(w, e) ==
    IF e = 0 THEN [w EXCEPT !.pc = "fatal"]
    ELSE [w EXCEPT !.code = @ \o SubSeq(w.rest, 1, e) \o <<"\n", " ", " ", " ">>,
                   !.breaks = @ \cup {Len(w.code) + e + 1},
                   !.rest = SubSeq(w.rest, e + 1, Len(w.rest))]

\* A wrong turn, which cuts the text at the line length when the for loop
\* finds nothing, to show that C15_FormatError depends on the fatal error.
wrap_turn_hard_break(w) ==
    IF Len(w.rest) <= w.len THEN wrap_fits(w)
    ELSE IF strcspn(w.rest) <= w.len THEN wrap_newline(w, strcspn(w.rest))
    ELSE IF wrap_end(w.rest, w.len, w.commaok) = 0 THEN wrap_break(w, w.len)
    ELSE wrap_break(w, wrap_end(w.rest, w.len, w.commaok))

\* One turn of the while loop.
wrap_turn(w) ==
    IF Len(w.rest) <= w.len THEN wrap_fits(w)
    ELSE IF strcspn(w.rest) <= w.len THEN wrap_newline(w, strcspn(w.rest))
    ELSE wrap_break(w, wrap_end(w.rest, w.len, w.commaok))

wrap_write(impl) ==
    /\ pc = "wrap_write"
    /\ wrap.pc = "loop"
    /\ wrap.impl = impl
    /\ wrap' = [wrap_turn(wrap) EXCEPT !.seen = Append(@, wrap.rest)]
    /\ fatal' = IF wrap'.pc = "fatal" THEN "Could not wrap long line" ELSE ""
    /\ pc' = IF wrap'.pc = "fatal" THEN "abort" ELSE "wrap_write"
    /\ UNCHANGED <<codegen, eqn_style, sum_style, sym_k, eq_i, neqns, cart, py, tablo,
                   html, calls, model_vars, render>>

Default_wrap_write == wrap_write("Default_wrap_write")

PYTHON_wrap_write == wrap_write("PYTHON_wrap_write")

-----------------------------------------------------------------------------
(* The renderers: Default_show_node, which writes the code, and            *)
(* Default_spprint, which writes diagnostics.  A text is the sequence of   *)
(* the strings concat() joins.  A call returns its text, the fatal error   *)
(* if it met one, and `kids`: the calls it made of the renderer itself,    *)
(* in order, with what each returned.                                      *)

\* The null pointer, as a node and as a string argument.
Nil == [type |-> "null"]

NullStr == <<>>

Rendered(text, kids) == [text |-> text, kids |-> kids, err |-> ""]

Faulted(msg) == [text |-> <<>>, kids |-> <<>>, err |-> msg]

Kid(prevtype, node, setlist, sublist, res) ==
    [prev |-> prevtype, node |-> node, setlist |-> setlist, sublist |-> sublist,
     text |-> res.text]

\* strlen of a text: the lengths of its strings, added up.
strlen_of(tok) ==
    CASE tok \in {"log", "exp", "sum", "lag"}   -> 3
      [] tok \in {"prod", "lead", "loge"}       -> 4
      [] tok \in {"US", "EU", "t1", "t2", "-1", "+1"} -> 2
      [] tok = "\n      "                       -> 7
      [] tok = " \n        "                    -> 10
      [] tok = "   "                            -> 3
      [] OTHER                                  -> 1

strlen(text) == SumSeq([k \in 1..Len(text) |-> strlen_of(text[k])])

\* The subscripts of a name: for each set of its domain, the element the
\* subscript list holds at the place of that set in the set list, or the set
\* itself when the list holds none.
show_subscripts(domain, setlist, sublist) ==
    [k \in 1..Len(domain) |->
        IF \E i \in 1..Len(setlist) : setlist[i] = domain[k] /\ i <= Len(sublist)
        THEN sublist[CHOOSE i \in 1..Len(setlist) : setlist[i] = domain[k] /\ i <= Len(sublist)]
        ELSE domain[k]]

\* The index of a Tablo set: the first character of its name (the sets of
\* these runs have names of one character).
tabset_index(name) == name

\* tablovar: the name, and in parentheses an index for each set of the list,
\* a quoted string for each element.
tablovar(name, sets, dt) ==
    IF sets = <<>> THEN <<name>>
    ELSE <<name, "(">>
         \o [k \in 1..Len(sets) |->
               IF IsDeclaredSet(sets[k]) THEN tabset_index(sets[k]) ELSE "\"" \o sets[k] \o "\""]
         \o <<")">>

Tablo_show_symbol(str, setlist, context) == tablovar(str, setlist, context.dt)

\* show_symbol: the hook of the target, given the name, its subscripts and
\* the context; with no hook, the name with its subscripts and its time
\* shift.
show_symbol(str, domain, setlist, sublist, context) ==
    IF codegen.show_symbol = "Tablo_show_symbol"
    THEN Tablo_show_symbol(str, show_subscripts(domain, setlist, sublist), context)
    ELSE <<str>>
         \o (IF domain = <<>> THEN <<>>
             ELSE <<"(">> \o show_subscripts(domain, setlist, sublist) \o <<")">>)
         \o (IF context.dt = 0 THEN <<>> ELSE IF context.dt < 0 THEN <<"-1">> ELSE <<"+1">>)

Default_begin_func(func, arg) ==
    Rendered(IF arg # NullStr THEN <<func, "(">> \o arg \o <<",">> ELSE <<func, "(">>, <<>>)

Default_end_func == <<")">>

Tablo_begin_func(func, arg) ==
    IF func \in {"sum", "prod"}
    THEN IF arg = NullStr \/ arg[1] \notin Range(tablo.tabsets)
         THEN Faulted("null pointer in Tablo_begin_func")
         ELSE Rendered(<<func, "(", tabset_index(arg[1]), ",", arg[1], ",">>, <<>>)
    ELSE IF arg # NullStr
    THEN Faulted("unexpected function call in Tablo_begin_func")
    ELSE IF func = "log" THEN Rendered(<<"loge", "(">>, <<>>)
    ELSE Rendered(<<func, "(">>, <<>>)

\* The calls through the capability table.
codegen_begin_func(func, arg) ==
    IF codegen.begin_func = "Tablo_begin_func" THEN Tablo_begin_func(func, arg)
    ELSE Default_begin_func(func, arg)

codegen_end_func == Default_end_func

\* The first switch of Default_show_node: the prevtypes it knows, and whether
\* the node is to be wrapped in parentheses.
show_node_prevtypes ==
    {"nul", "add", "sub", "mul", "neg", "dvd", "pow", "log", "exp", "lag", "led",
     "sum", "prd", "nam", "num", "equ", "dom"}

show_node_parens(prevtype, t) ==
    CASE prevtype \in {"nul", "add", "sub"} -> t = "neg"
      [] prevtype = "mul" -> t \in {"add", "sub", "dvd", "neg"}
      [] prevtype = "neg" ->
            t \notin {"nam", "num", "mul", "log", "exp", "pow", "lag", "led", "sum", "prd"}
      [] prevtype = "dvd" ->
            t \notin {"nam", "num", "pow", "sum", "prd", "lag", "led", "log", "exp"}
      [] prevtype = "pow" ->
            t \notin {"nam", "num", "log", "exp", "sum", "prd", "lag", "led"}
      [] OTHER -> FALSE

\* cr of Default_show_node: a break between two long sides.
show_node_cr(lstr, rstr) ==
    IF strlen(lstr) + strlen(rstr) > 70 \/ strlen(lstr) > 40 \/ strlen(rstr) > 40
    THEN <<" \n        ">> ELSE <<>>

wrap_right(cur) == cur.type = "sub" /\ cur.r.type \in {"add", "sub"}

\* A wrong join, which never wraps the right side, to show that
\* C19_RightSideWrapped depends on wrap_right.
show_node_join_unwrapped(parens, cur, isfunc, lstr, op, rstr, endfunc) ==
    (IF parens /\ ~isfunc THEN <<"(">> ELSE <<>>)
    \o lstr \o show_node_cr(lstr, rstr) \o op \o rstr
    \o (IF parens /\ ~isfunc THEN <<")">> ELSE <<>>)
    \o endfunc

\* The two concat() calls that end Default_show_node.
show_node_join(parens, cur, isfunc, lstr, op, rstr, endfunc) ==
    (IF parens /\ ~isfunc THEN <<"(">> ELSE <<>>)
    \o lstr \o show_node_cr(lstr, rstr) \o op
    \o (IF wrap_right(cur) THEN <<"(">> \o rstr \o <<")">> ELSE rstr)
    \o (IF parens /\ ~isfunc THEN <<")">> ELSE <<>>)
    \o endfunc

RECURSIVE Default_show_node(_, _, _, _)

\* lag, led and dom: the node is the rendering of one child.
show_node_pass(type, child, setlist, sublist) ==
    CHOOSE res \in
      {IF r.err # "" THEN Faulted(r.err)
       ELSE Rendered(r.text, <<Kid(type, child, setlist, sublist, r)>>) :
         r \in {Default_show_node(type, child, setlist, sublist)}} : TRUE

\* One turn of the loop over the elements of the set of a sum or a product.
show_sum_term(cur, augsets, augsubs, k, acc) ==
    CHOOSE res \in
      {IF r.err # "" THEN Faulted(r.err)
       ELSE Rendered(acc.text
                       \o <<"\n      ",
                            IF k = 1 THEN " " ELSE IF cur.type = "prd" THEN "*" ELSE "+">>
                       \o (IF cur.type = "prd" THEN <<"(">> ELSE <<>>)
                       \o r.text
                       \o (IF cur.type = "prd" THEN <<")">> ELSE <<>>),
                     Append(acc.kids, Kid(cur.type, cur.r, augsets, augsubs, r))) :
         r \in {Default_show_node(cur.type, cur.r, augsets, augsubs)}} : TRUE

\* A wrong loop, which stops after the first element, to show that
\* C18_SummationRendering depends on the walk over all of them.
RECURSIVE show_sum_terms_first_only(_, _, _, _, _, _)
show_sum_terms_first_only(cur, augsets, sublist, elems, k, acc) ==
    IF k > Len(elems) \/ k > 1 THEN acc
    ELSE CHOOSE res \in
           {IF nxt.err # "" THEN nxt
            ELSE show_sum_terms_first_only(cur, augsets, sublist, elems, k + 1, nxt) :
              nxt \in {show_sum_term(cur, augsets, Append(sublist, elems[k]), k, acc)}} : TRUE

RECURSIVE show_sum_terms(_, _, _, _, _, _)
show_sum_terms(cur, augsets, sublist, elems, k, acc) ==
    IF k > Len(elems) THEN acc
    ELSE CHOOSE res \in
           {IF nxt.err # "" THEN nxt
            ELSE show_sum_terms(cur, augsets, sublist, elems, k + 1, nxt) :
              nxt \in {show_sum_term(cur, augsets, Append(sublist, elems[k]), k, acc)}} : TRUE

\* Case 2: a sum or a product in scalar form.
show_sum_scalar(cur, setlist, sublist) ==
    CHOOSE res \in
      {IF t.err # "" THEN t ELSE Rendered(t.text \o <<")">>, t.kids) :
         t \in {show_sum_terms(cur, Append(setlist, cur.l.str), sublist,
                               setelements(cur.l.str), 1, Rendered(<<"(">>, <<>>))}} : TRUE

\* Case 3: a sum or a product in vector form.
show_sum_body(cur, augsets, augsubs, beginfunc) ==
    CHOOSE res \in
      {IF r.err # "" THEN Faulted(r.err)
       ELSE Rendered(beginfunc \o r.text \o codegen_end_func,
                     <<Kid(cur.type, cur.r, augsets, augsubs, r)>>) :
         r \in {Default_show_node(cur.type, cur.r, augsets, augsubs)}} : TRUE

show_sum_vector(cur, augsets, augsubs) ==
    CHOOSE res \in
      {IF b.err # "" THEN b ELSE show_sum_body(cur, augsets, augsubs, b.text) :
         b \in {codegen_begin_func(cur.str, <<cur.l.str>>)}} : TRUE

\* Case 4, log and exp: the function's envelope around the right child.
show_node_operand(parens, cur, setlist, sublist, beginfunc) ==
    CHOOSE res \in
      {IF r.err # "" THEN Faulted(r.err)
       ELSE Rendered(show_node_join(parens, cur, TRUE, beginfunc, <<>>, r.text,
                                    codegen_end_func),
                     <<Kid(cur.type, cur.r, setlist, sublist, r)>>) :
         r \in {Default_show_node(cur.type, cur.r, setlist, sublist)}} : TRUE

show_node_func(parens, cur, setlist, sublist) ==
    CHOOSE res \in
      {IF b.err # "" THEN b ELSE show_node_operand(parens, cur, setlist, sublist, b.text) :
         b \in {codegen_begin_func(cur.str, NullStr)}} : TRUE

\* Case 4, the rest, once the left child is rendered.
show_node_right(parens, cur, setlist, sublist, l) ==
    CHOOSE res \in
      {IF r.err # "" THEN Faulted(r.err)
       ELSE Rendered(show_node_join(parens, cur, FALSE, l.text,
                                    IF cur.type = "pow" THEN <<"^">> ELSE <<cur.str>>,
                                    r.text, <<>>),
                     <<Kid(cur.type, cur.l, setlist, sublist, l),
                       Kid(cur.type, cur.r, setlist, sublist, r)>>) :
         r \in {Default_show_node(cur.type, cur.r, setlist, sublist)}} : TRUE

show_node_infix(parens, cur, setlist, sublist) ==
    CHOOSE res \in
      {IF l.err # "" THEN Faulted(l.err)
       ELSE show_node_right(parens, cur, setlist, sublist, l) :
         l \in {Default_show_node(cur.type, cur.l, setlist, sublist)}} : TRUE

Default_show_node(prevtype, cur, setlist, sublist) ==
    IF cur = Nil THEN Rendered(<<>>, <<>>)
    ELSE IF prevtype \notin show_node_prevtypes
    THEN Faulted("Invalid state reached in show_node")
    ELSE CASE cur.type = "nam" ->
                Rendered(show_symbol(cur.str, cur.domain, setlist, sublist,
                                     [lhs |-> cur.lhs, dt |-> cur.dt, tsub |-> 0]), <<>>)
           [] cur.type \in {"lag", "led"} ->
                show_node_pass(cur.type, cur.r, setlist, sublist)
           [] cur.type = "dom" ->
                show_node_pass(cur.type, cur.l, setlist, sublist)
           [] cur.type = "lst" ->
                Faulted("Unexpected lst state in show_node")
           [] cur.type \in {"sum", "prd"} ->
                IF sum_style = "scalar"
                THEN show_sum_scalar(cur, setlist, sublist)
                ELSE show_sum_vector(cur, Append(setlist, cur.l.str), Append(sublist, "*"))
           [] cur.type \in {"log", "exp"} ->
                show_node_func(show_node_parens(prevtype, cur.type), cur, setlist, sublist)
           [] OTHER ->
                show_node_infix(show_node_parens(prevtype, cur.type), cur, setlist, sublist)

\* The first switch of Default_spprint.
spprint_prevtypes ==
    {"nul", "add", "sub", "mul", "neg", "dvd", "pow", "log", "exp", "lag", "led",
     "equ", "sum", "prd", "dom", "nam", "num"}

spprint_parens(prevtype, t) ==
    CASE prevtype \in {"nul", "add", "sub"} -> t = "neg"
      [] prevtype = "mul" -> t \in {"add", "sub", "dvd", "neg"}
      [] prevtype = "neg" ->
            t \notin {"nam", "num", "mul", "log", "exp", "pow", "sum", "prd"}
      [] prevtype = "dvd" ->
            t \notin {"nam", "num", "pow", "sum", "prd", "log", "exp"}
      [] prevtype = "pow" ->
            t \notin {"nam", "num", "log", "exp", "sum", "prd"}
      [] prevtype \in {"log", "exp", "lag", "led"} -> TRUE
      [] OTHER -> FALSE

spprint_comma(prevtype, t) ==
    IF prevtype \in {"nam", "num"} /\ t \in {"nam", "num"} THEN <<",">> ELSE <<>>

\* cr of Default_spprint: a break, when an indent is given, between two long
\* sides.
spprint_cr(indent, lstr, rstr) ==
    IF indent # NullStr
       /\ (strlen(lstr) + strlen(rstr) > 70 \/ strlen(lstr) > 40 \/ strlen(rstr) > 40)
    THEN <<"\n">> \o indent ELSE <<>>

\* The four concat() calls of the default case.
spprint_join(parens, comma, cur, indent, lstr, rstr) ==
    (IF parens THEN <<"(">> ELSE <<>>)
    \o lstr \o comma \o spprint_cr(indent, lstr, rstr) \o <<cur.str>>
    \o (IF wrap_right(cur) THEN <<"(">> \o rstr \o <<")">> ELSE rstr)
    \o (IF parens THEN <<")">> ELSE <<>>)

\* The case lst: the strings of the chain of right children, in parentheses,
\* with commas between them.
RECURSIVE spprint_lst(_)
spprint_lst(cur) ==
    IF cur = Nil THEN <<>>
    ELSE IF cur.r # Nil THEN <<cur.str, ",">> \o spprint_lst(cur.r)
    ELSE <<cur.str>>

RECURSIVE Default_spprint(_, _, _)

\* Both children, then the text `join` makes of them.
spprint_right(cur, indent, l, parens, comma) ==
    CHOOSE res \in
      {IF r.err # "" THEN Faulted(r.err)
       ELSE Rendered(IF cur.type \in {"sum", "prd"}
                     THEN <<cur.str, "(">> \o l.text \o <<",">> \o r.text \o <<")">>
                     ELSE spprint_join(parens, comma, cur, indent, l.text, r.text),
                     <<Kid(cur.type, cur.l, <<>>, <<>>, l), Kid(cur.type, cur.r, <<>>, <<>>, r)>>) :
         r \in {Default_spprint(cur.type, cur.r, indent)}} : TRUE

spprint_children(cur, indent, parens, comma) ==
    CHOOSE res \in
      {IF l.err # "" THEN Faulted(l.err)
       ELSE spprint_right(cur, indent, l, parens, comma) :
         l \in {Default_spprint(cur.type, cur.l, indent)}} : TRUE

Default_spprint(prevtype, cur, indent) ==
    IF cur = Nil THEN Rendered(<<>>, <<>>)
    ELSE IF prevtype \notin spprint_prevtypes
    THEN Faulted("invalid state reached in spprint")
    ELSE IF cur.type = "lst"
    THEN Rendered(<<"(">> \o spprint_lst(cur.r) \o <<")">>, <<>>)
    ELSE spprint_children(cur, indent, spprint_parens(prevtype, cur.type),
                          spprint_comma(prevtype, cur.type))

\* A call of the renderer through the capability table, and its return.
render_return(r) ==
    /\ render' = [render EXCEPT !.pc = IF r.err # "" THEN "fatal" ELSE "returned",
                                !.text = r.text, !.kids = r.kids]
    /\ fatal' = r.err
    /\ pc' = IF r.err # "" THEN "abort" ELSE pc
    /\ UNCHANGED <<codegen, eqn_style, sum_style, sym_k, eq_i, neqns, cart, py, tablo,
                   html, calls, model_vars, wrap>>

codegen_show_node ==
    /\ pc = "show_eq"
    /\ render.pc = "call"
    /\ render.fn = "show_node"
    /\ codegen.show_node = "Default_show_node"
    /\ \E r \in {Default_show_node(render.prevtype, render.cur, render.setlist,
                                    render.sublist)} : render_return(r)

codegen_spprint ==
    /\ pc = "show_eq"
    /\ render.pc = "call"
    /\ render.fn = "spprint"
    /\ codegen.spprint = "Default_spprint"
    /\ \E r \in {Default_spprint(render.prevtype, render.cur, render.indent)} :
         render_return(r)

-----------------------------------------------------------------------------
(* The models the runs are given: symbols and equations.                   *)

Sym(name, type, attrs, domain, elems, sups) ==
    [name |-> name, type |-> type, attrs |-> attrs, domain |-> domain,
     elems |-> elems, sups |-> sups]

SetR == Sym("R", "set", <<>>, <<>>, <<"US", "EU">>, {"regions"})
SetG == Sym("G", "set", <<>>, <<>>, <<"A", "B", "C">>, {"goods"})
SetT == Sym("T", "set", <<>>, <<>>, <<"t1", "t2">>, {})

Par(name, attrs, domain) == Sym(name, "par", attrs, domain, <<>>, {})
Var(name, attrs, domain) == Sym(name, "var", attrs, domain, <<>>, {})

Ref(name, lhs, dt) == [name |-> name, lhs |-> lhs, dt |-> dt]

Eqn(sets, count, timeok, lvalue, refs) ==
    [sets |-> sets, count |-> count, timeok |-> timeok, lvalue |-> lvalue,
     refs |-> refs]

\* The size of the Cartesian product of a list of sets of {R, G, T}.
Card(sets) ==
    LET n(x) == IF x = "G" THEN 3 ELSE 2
        RECURSIVE prod(_)
        prod(l) == IF l = <<>> THEN 1 ELSE n(Head(l)) * prod(Tail(l))
    IN  prod(sets)

\* Statics as the C initialisers leave them.
py0 == [MSGPROC_block |-> 1, MSGPROC_scalar |-> 1, MSGPROC_vars |-> 1,
        vecinfo |-> [i \in NUL..UNK |-> 0], v_head |-> <<>>]

tablo0 == [Tablo_eqn |-> 0, Tablo_var |-> 0, Tablo_par |-> 0, Tablo_scalar_eqn |-> 0,
           tabsets |-> <<>>, decs |-> 0, reads |-> <<>>]

html0 == [HTML_block |-> 1, HTML_scalar |-> 1, htmlsets |-> <<>>, decs |-> 0]

NoPrior == [outcome |-> "none", eqns |-> <<>>, k |-> 0]

\* No call of wrap_write, no call of the renderer.
NoWrap == [pc |-> "none"]

NoRender == [pc |-> "none"]

\* The state a process starts in, whatever its model.
Fresh ==
    /\ codegen = [s \in Slots |-> "unset"]
    /\ pc = "start"
    /\ sym_k = 0
    /\ eq_i = 0
    /\ neqns = 0
    /\ cart = <<>>
    /\ py = py0
    /\ tablo = tablo0
    /\ html = html0
    /\ calls = <<>>
    /\ fatal = ""
    /\ wrap = NoWrap
    /\ render = NoRender

\* Driver runs: every language, two symbol tables that differ in registration
\* order and in their parameters, equations that are fine, miscounted, outside the time domain, or
\* refer to an undeclared name.
DriverSymtabs ==
    { [set |-> <<SetR, SetG>>,
       par |-> <<Par("p", <<>>, <<>>), Par("q", <<"P001">>, <<"R">>)>>,
       var |-> <<Var("a", <<"end", "gdp">>, <<>>), Var("B", <<"exo", "pct">>, <<"R">>),
                 Var("c", <<"end", "gdp">>, <<"R", "G">>)>>],
      [set |-> <<SetG, SetR>>,
       par |-> <<Par("q", <<"P001">>, <<"R">>)>>,
       var |-> <<Var("c", <<"end", "gdp">>, <<"R", "G">>), Var("B", <<"exo", "pct">>, <<"R">>),
                 Var("a", <<"end", "gdp">>, <<>>)>>] }

DriverEqns ==
    { Eqn(sets, Card(sets) - d, flaw # "time", TRUE,
          <<Ref(IF flaw = "undec" THEN "zz" ELSE IF sets = <<>> THEN "a" ELSE "c", TRUE, 0),
            Ref("B", FALSE, 0)>>) :
        sets \in {<<>>, <<"R", "G">>}, d \in {0, 1}, flaw \in {"none", "time", "undec"} }
    \cup { Eqn(<<"G", "R">>, 6, TRUE, TRUE, <<Ref("c", TRUE, 0)>>),
           Eqn(<<>>, 1, TRUE, FALSE, <<Ref("a", TRUE, 0), Ref("p", FALSE, 0)>>) }

\* A bare language module (Default's hooks only) may or may not have chosen
\* the styles; the three languages choose them in their setup.
InitDriver ==
    /\ lang \in {"default", "tablo", "html", "python"}
    /\ do_calc \in (IF lang = "tablo" THEN BOOLEAN ELSE {FALSE})
    /\ eqn_style \in (IF lang = "default" THEN {"unset", "scalar", "vector"} ELSE {"unset"})
    /\ sum_style \in (IF lang = "default" THEN {"unset", "scalar"} ELSE {"unset"})
    /\ symtab \in DriverSymtabs
    /\ eqns \in SeqsUpTo(DriverEqns, MaxEqns)
    /\ run = 1
    /\ prior = NoPrior
    /\ Fresh

Next ==
    \/ Default_setup
    \/ Python_setup
    \/ Tablo_setup
    \/ Html_setup
    \/ write_file_begin_file
    \/ write_file_validate
    \/ write_file_declare
    \/ write_file_next_eqn
    \/ write_file_show_vector
    \/ write_file_show_scalar
    \/ write_file_check_count
    \/ write_file_end_file

Spec == InitDriver /\ [][Next]_vars

\* The runs of the python back end: no other setup, no vector branch.
NextPython ==
    \/ Default_setup
    \/ Python_setup
    \/ write_file_begin_file
    \/ write_file_validate
    \/ write_file_declare
    \/ write_file_next_eqn
    \/ write_file_show_scalar
    \/ write_file_check_count
    \/ write_file_end_file

InitPython ==
    /\ lang = "python"
    /\ do_calc = FALSE
    /\ eqn_style = "unset"
    /\ sum_style = "unset"
    /\ run = 1
    /\ prior = NoPrior
    /\ Fresh

\* Allocator runs: the variables are named by their place in the symbol
\* table and take every kind, with one element or with the two of R; one has
\* no kind at all.
AllocNames == <<"a", "B", "c", "ab", "x">>

AllocParNames == <<"p", "q", "P">>

AllocKinds ==
    {<<<<k, "gdp">>, d>> : k \in {"end", "ets", "sta", "stl"}, d \in {<<>>, <<"R">>}}
    \cup {<<<<k, "pct">>, <<>>>> : k \in {"exo", "cos"}}
    \cup {<<<<"gdp">>, <<>>>>}

AllocVarLists ==
    UNION {{[k \in 1..n |-> Var(AllocNames[k], ch[k][1], ch[k][2])] :
               ch \in [1..n -> AllocKinds]} : n \in 0..MaxVars}

AllocParLists ==
    {[k \in 1..n |-> Par(AllocParNames[k], <<>>, <<"R">>)] : n \in 0..MaxPars}

AllocEqns == {<<>>, <<Eqn(<<>>, 1, TRUE, TRUE, <<Ref("a", TRUE, 0)>>)>>}

InitAlloc ==
    /\ symtab \in [set : {<<SetR, SetG>>}, par : AllocParLists, var : AllocVarLists]
    /\ eqns \in AllocEqns
    /\ InitPython

SpecAlloc == InitAlloc /\ [][NextPython]_vars

\* Registry runs: exogenous scalars whose names are drawn freely, so that
\* names that differ only in case, and a name that is a prefix of another,
\* meet in every order.
RegistryNames == {"a", "A", "B", "ab", "c"}

RegistryParNames == {"b", "p"}

InitRegistry ==
    /\ symtab \in [set : {<<SetR, SetG>>},
                   par : {[k \in 1..Len(ns) |-> Par(ns[k], <<>>, <<>>)] :
                             ns \in SeqsUpTo(RegistryParNames, MaxPars)},
                   var : {[k \in 1..Len(ns) |-> Var(ns[k], <<"exo", "pct">>, <<>>)] :
                             ns \in SeqsUpTo(RegistryNames, MaxVars)}]
    /\ eqns \in {<<>>, <<Eqn(<<>>, 1, TRUE, TRUE, <<Ref("a", FALSE, 0)>>)>>}
    /\ InitPython

SpecRegistry == InitRegistry /\ [][NextPython]_vars

\* Header runs of the Tablo target, in either mode: a variable a, alone or
\* before a variable B over R, each with a header in one of the letters of
\* tablo_type, in another letter, in a small letter, with a second attribute
\* or with none; no parameter, or a parameter p with a header, with none or
\* with two attributes; one equation for a in terms of B, or none.
HeaderAttrs ==
    {<<h>> : h \in {"A001", "B001", "C001", "I001", "K001", "M001", "N001", "O001", "P001",
                    "T001", "X001", "Z001", "b001"}}
    \cup {<<>>, <<"K001", "gdp">>}

InitTablo ==
    /\ lang = "tablo"
    /\ do_calc \in BOOLEAN
    /\ eqn_style = "unset"
    /\ sum_style = "unset"
    /\ symtab \in [set : {<<SetR, SetG>>},
                   par : {<<>>} \cup {<<Par("p", at, <<>>)>> :
                                        at \in {<<>>, <<"B001">>, <<"P001", "gdp">>}},
                   var : {<<Var("a", at, <<>>)>> : at \in HeaderAttrs}
                         \cup {<<Var("a", at, <<>>), Var("B", bt, <<"R">>)>> :
                                  at \in HeaderAttrs, bt \in HeaderAttrs}]
    /\ eqns \in {<<>>, <<Eqn(<<>>, 1, TRUE, TRUE, <<Ref("a", TRUE, 0), Ref("B", FALSE, 0)>>)>>}
    /\ run = 1
    /\ prior = NoPrior
    /\ Fresh

NextTablo ==
    \/ Default_setup
    \/ Tablo_setup
    \/ write_file_begin_file
    \/ write_file_validate
    \/ write_file_declare
    \/ write_file_next_eqn
    \/ write_file_show_vector
    \/ write_file_end_file

SpecTablo == InitTablo /\ [][NextTablo]_vars

\* Kind runs: a variable a whose attributes hold up to MaxTags kind tags, with
\* or without a unit, alone or after a variable B; no parameter, or a
\* parameter p with no attribute, with a kind tag or with two.
KindAttrs ==
    {tags \o u : tags \in SeqsUpTo(KindTags, MaxTags), u \in {<<>>, <<"gdp">>}}

InitKinds ==
    /\ symtab \in [set : {<<SetR, SetG>>},
                   par : {<<>>} \cup {<<Par("p", at, <<>>)>> :
                                        at \in {<<>>, <<"end">>, <<"exo", "sta">>}},
                   var : {<<Var("a", at, d)>> : at \in KindAttrs, d \in {<<>>, <<"R">>}}
                         \cup {<<Var("B", <<"exo", "pct">>, <<"R">>), Var("a", at, d)>> :
                                  at \in KindAttrs, d \in {<<>>, <<"R">>}}]
    /\ eqns \in {<<>>, <<Eqn(<<>>, 1, TRUE, TRUE, <<Ref("B", FALSE, 0)>>)>>}
    /\ InitPython

SpecKinds == InitKinds /\ [][NextPython]_vars

\* Context runs: a variable a of every kind, with one element or the two of R,
\* after a variable B over R of every kind or alone; a parameter p; one
\* equation whose first name is a, B or p on either side at every shift up
\* to MaxShift, with or without a second name.
ContextKinds == {"end", "ets", "exo", "cos", "sta", "stl"}

ContextVarLists ==
    {<<Var("a", <<k, "gdp">>, d)>> : k \in ContextKinds, d \in {<<>>, <<"R">>}}
    \cup {<<Var("B", <<kb, "pct">>, <<"R">>), Var("a", <<k, "gdp">>, d)>> :
             kb \in ContextKinds, k \in ContextKinds, d \in {<<>>, <<"R">>}}

ContextRefs ==
    {<<Ref(n, lhs, dt)>> \o more :
        n \in {"a", "B", "p"}, lhs \in BOOLEAN, dt \in (0 - MaxShift)..MaxShift,
        more \in {<<>>, <<Ref("a", TRUE, 1)>>, <<Ref("p", FALSE, 0)>>}}

InitContext ==
    /\ symtab \in [set : {<<SetR, SetG>>}, par : {<<Par("p", <<>>, <<"R">>)>>},
                   var : ContextVarLists]
    /\ eqns \in {<<Eqn(<<>>, 1, TRUE, TRUE, refs)>> : refs \in ContextRefs}
    /\ InitPython

SpecContext == InitContext /\ [][NextPython]_vars

\* Calls of wrap_write: every line of at most MaxLine characters, one of them
\* of each kind the wrapper tells apart, every line length from 1 to
\* MaxWidth, with and without the final newline and the comma.
WrapChars == {"a", " ", "+", ",", "\n"}

\* The driver's variables while a text routine is called on its own.
InitText ==
    /\ lang = "default"
    /\ do_calc = FALSE
    /\ eqns = <<>>
    /\ eqn_style = "scalar"
    /\ codegen = [s \in Slots |-> "unset"]
    /\ sym_k = 0
    /\ eq_i = 0
    /\ neqns = 0
    /\ cart = <<>>
    /\ py = py0
    /\ tablo = tablo0
    /\ html = html0
    /\ calls = <<>>
    /\ fatal = ""
    /\ run = 1
    /\ prior = NoPrior

InitWrap ==
    /\ InitText
    /\ symtab = [set |-> <<>>, par |-> <<>>, var |-> <<>>]
    /\ sum_style = "scalar"
    /\ pc = "wrap_write"
    /\ render = NoRender
    /\ wrap \in {[pc |-> "loop", impl |-> impl, line |-> line, addcr |-> addcr,
                  commaok |-> commaok, len |-> len, rest |-> line, code |-> <<>>,
                  breaks |-> {}, seen |-> <<>>] :
                    impl \in {"Default_wrap_write", "PYTHON_wrap_write"},
                    line \in SeqsUpTo(WrapChars, MaxLine),
                    addcr \in BOOLEAN, commaok \in BOOLEAN, len \in 1..MaxWidth}

NextWrap ==
    \/ Default_wrap_write
    \/ PYTHON_wrap_write

SpecWrap == InitWrap /\ [][NextWrap]_vars

\* Calls of wrap_write with every line length option, 0 among them, and the
\* loop kept running: the program has nothing else to do.  The lines are
\* over a letter, an operator, the comma and the newline.
InitWrapAny ==
    /\ InitText
    /\ symtab = [set |-> <<>>, par |-> <<>>, var |-> <<>>]
    /\ sum_style = "scalar"
    /\ pc = "wrap_write"
    /\ render = NoRender
    /\ wrap \in {[pc |-> "loop", impl |-> impl, line |-> line, addcr |-> addcr,
                  commaok |-> commaok, len |-> len, rest |-> line, code |-> <<>>,
                  breaks |-> {}, seen |-> <<>>] :
                    impl \in {"Default_wrap_write", "PYTHON_wrap_write"},
                    line \in SeqsUpTo(WrapChars \ {" "}, MaxLine),
                    addcr \in BOOLEAN, commaok \in BOOLEAN, len \in 0..MaxWidth}

SpecWrapFair == InitWrapAny /\ [][NextWrap]_vars /\ WF_vars(NextWrap)

\* Trees given to the renderers.  The leaves are a number and the names x (a
\* scalar), y (over G) and z (over R); a node of each kind over the leaves;
\* and a node of each kind over such a node.
Node(type, str, l, r) ==
    [type |-> type, str |-> str, l |-> l, r |-> r, lhs |-> FALSE, dt |-> 0, domain |-> <<>>]

LeafDomain(name) == CASE name = "y" -> <<"G">> [] name = "z" -> <<"R">> [] OTHER -> <<>>

Nam(name) == [Node("nam", name, Nil, Nil) EXCEPT !.domain = LeafDomain(name)]

Num(str) == Node("num", str, Nil, Nil)

OpStr(type) ==
    CASE type = "add" -> "+" [] type = "sub" -> "-" [] type = "mul" -> "*"
      [] type = "dvd" -> "/" [] type = "pow" -> "^" [] type = "equ" -> "="
      [] type = "neg" -> "-" [] type = "log" -> "log" [] type = "exp" -> "exp"
      [] type = "lag" -> "lag" [] type = "led" -> "lead" [] type = "sum" -> "sum"
      [] type = "prd" -> "prod" [] type = "dom" -> ":" [] OTHER -> ""

BinaryKinds == {"add", "sub", "mul", "dvd", "pow", "equ"}

UnaryKinds == {"neg", "log", "exp", "lag", "led"}

Lst(name) == Node("lst", "", Nil, Nam(name))

\* The nodes of every kind over the operands `ops`; a binary node has one
\* operand of `ops` and one of `leaves`.
NodesOver(ops, leaves) ==
    {Node(t, OpStr(t), a, b) : t \in BinaryKinds, a \in ops, b \in leaves}
    \cup {Node(t, OpStr(t), b, a) : t \in BinaryKinds, a \in ops, b \in leaves}
    \cup {Node(t, OpStr(t), Nil, a) : t \in UnaryKinds, a \in ops}
    \cup {Node("dom", OpStr("dom"), a, Lst("G")) : a \in ops}
    \cup {Node(t, OpStr(t), Nam("G"), a) : t \in {"sum", "prd"}, a \in ops}

RenderLeaves == {Nam(SubSeq(<<"x", "y", "z">>, 1, MaxLeaves)[k]) : k \in 1..MaxLeaves}
                \cup {Num("2")}

RenderNodes == NodesOver(RenderLeaves, RenderLeaves)

\* The nodes the code renderer passes through, over a node.
PassNodes == {Node(t, OpStr(t), Nil, a) : t \in {"lag", "led"}, a \in RenderNodes}
             \cup {Node("dom", OpStr("dom"), a, Lst("G")) : a \in RenderNodes}

\* The nodes with a node passed through at the right.
NodesOverPass ==
    {Node(t, OpStr(t), IF t \in UnaryKinds THEN Nil ELSE Nam("x"), a) :
        t \in BinaryKinds \cup UnaryKinds, a \in PassNodes}

\* The nodes over a difference whose right side is itself a node.
NodesOverSub ==
    {Node(t, OpStr(t), IF t \in UnaryKinds THEN Nil ELSE Nam("x"),
          Node("sub", OpStr("sub"), Nam("x"), Node(u, OpStr(u), Nam("x"), Num("2")))) :
        t \in BinaryKinds \cup UnaryKinds, u \in BinaryKinds}

RenderTrees ==
    RenderNodes \cup NodesOver(RenderNodes, {Nam("x")}) \cup NodesOverPass \cup NodesOverSub

\* The calls a rendering of `root` makes: of the root as the side of an
\* equation, and of each child under the root's kind.  The code renderer
\* passes over the left child of a function, a shift, a sum and a product,
\* and over the right child of a dom node.
RenderCalls(fn, root) ==
    {<<"nul", root>>}
    \cup {<<root.type, c>> :
            c \in (IF fn = "spprint" THEN {root.l, root.r}
                   ELSE IF root.type \in {"log", "exp", "lag", "led", "sum", "prd"} THEN {root.r}
                   ELSE IF root.type = "dom" THEN {root.l}
                   ELSE {root.l, root.r}) \ {Nil}}

RenderPairs(fn) == UNION {RenderCalls(fn, root) : root \in RenderTrees}

RenderFrame(fn, c, ctx, indent) ==
    [pc |-> "call", fn |-> fn, prevtype |-> c[1], cur |-> c[2], setlist |-> ctx[1],
     sublist |-> ctx[2], indent |-> indent, text |-> <<>>, kids |-> <<>>]

\* Renderer runs: the default and the Tablo target, which leave the renderers
\* to Default; the symbols are declared; an equation over no set or over R,
\* at its first tuple.
InitRender ==
    /\ do_calc = FALSE
    /\ eqns = <<>>
    /\ sym_k = 0
    /\ eq_i = 0
    /\ neqns = 0
    /\ cart = <<>>
    /\ py = py0
    /\ html = html0
    /\ calls = <<>>
    /\ fatal = ""
    /\ run = 1
    /\ prior = NoPrior
    /\ symtab = [set |-> <<SetR, SetG>>, par |-> <<>>, var |-> <<>>]
    /\ pc = "show_eq"
    /\ wrap = NoWrap
    /\ \E target \in {"default", "tablo"} :
         /\ lang = target
         /\ eqn_style = IF target = "tablo" THEN "vector" ELSE "scalar"
         /\ sum_style = IF target = "tablo" THEN "vector" ELSE "scalar"
         /\ codegen = install_all(install_all([s \in Slots |-> "unset"], Default_hooks),
                                  IF target = "tablo" THEN Tablo_hooks ELSE <<>>)
         /\ tablo = IF target = "tablo" THEN [tablo0 EXCEPT !.tabsets = <<"R", "G">>]
                    ELSE tablo0
    /\ render \in {RenderFrame("show_node", c, ctx, NullStr) :
                      c \in RenderPairs("show_node"),
                      ctx \in {<< <<>>, <<>> >>, << <<"R">>, <<"US">> >>}}
                 \cup {RenderFrame("spprint", c, << <<>>, <<>> >>, indent) :
                      c \in RenderPairs("spprint"), indent \in {NullStr, <<"   ">>}}

NextRender ==
    \/ codegen_show_node
    \/ codegen_spprint

SpecRender == InitRender /\ [][NextRender]_vars

-----------------------------------------------------------------------------
(* show_eq: Default_show_eq, which PYTHON_show_eq repeats line for line.   *)

\* The characters of one token of a rendering.
TokChars(tok) ==
    CASE tok = "\n      " -> <<"\n", " ", " ", " ", " ", " ", " ">>
      [] tok = " \n        " -> <<" ", "\n", " ", " ", " ", " ", " ", " ", " ", " ">>
      [] tok = " = " -> <<" ", "=", " ">>
      [] tok = " - (" -> <<" ", "-", " ", "(">>
      [] tok = "log" -> <<"l", "o", "g">>
      [] OTHER -> <<tok>>

RECURSIVE Chars(_)
Chars(text) == IF text = <<>> THEN <<>> ELSE TokChars(Head(text)) \o Chars(Tail(text))

\* concat(4, lstr, " - (", rstr, ")") or concat(3, lstr, " = ", rstr)
show_eq_all(lstr, rstr, normalized) ==
    IF normalized THEN Chars(lstr \o <<" - (">> \o rstr \o <<")">>)
    ELSE Chars(lstr \o <<" = ">> \o rstr)

ShowEqFrame(lhs, rhs, ctx, len, normalized) ==
    [pc |-> "lhs", fn |-> "show_eq", lhs |-> lhs, rhs |-> rhs, setlist |-> ctx[1],
     sublist |-> ctx[2], len |-> len, normalized |-> normalized, lstr |-> <<>>,
     rstr |-> <<>>, all |-> <<>>, head |-> <<>>, last |-> FALSE, code |-> <<>>]

\* One side has been rendered: the text is kept, or the fatal error of the
\* renderer ends the run.
show_eq_side(r, field, next) ==
    /\ render' = IF r.err # "" THEN [render EXCEPT !.pc = "fatal"]
                 ELSE [render EXCEPT ![field] = r.text, !.pc = next]
    /\ fatal' = r.err
    /\ pc' = IF r.err # "" THEN "abort" ELSE pc
    /\ UNCHANGED <<codegen, eqn_style, sum_style, sym_k, eq_i, neqns, cart, py, tablo,
                   html, model_vars, wrap>>

\* A wrong order, begin_eqn before the sides are rendered, to show that
\* C24_ShowEqProtocol depends on the place of the call.
show_eq_lhs_begin_first ==
    /\ pc = "show_eq"
    /\ render.pc = "lhs"
    /\ calls' = Append(calls, Call("begin_eqn", 0, render.setlist, render.sublist, NoSym))
    /\ \E r \in {Default_show_node("nul", render.lhs, render.setlist, render.sublist)} :
          show_eq_side(r, "lstr", "rhs")

\* lstr = codegen_show_node(nul, getlhs(eq), setlist, sublist)
show_eq_lhs ==
    /\ pc = "show_eq"
    /\ render.pc = "lhs"
    /\ calls' = calls
    /\ \E r \in {Default_show_node("nul", render.lhs, render.setlist, render.sublist)} :
          show_eq_side(r, "lstr", "rhs")

\* rstr = codegen_show_node(nul, getrhs(eq), setlist, sublist)
show_eq_rhs ==
    /\ pc = "show_eq"
    /\ render.pc = "rhs"
    /\ calls' = calls
    /\ \E r \in {Default_show_node("nul", render.rhs, render.setlist, render.sublist)} :
          show_eq_side(r, "rstr", "begin_eqn")

\* codegen_begin_eqn(eq), which writes nothing, and the text of the equation.
show_eq_begin_eqn ==
    /\ pc = "show_eq"
    /\ render.pc = "begin_eqn"
    /\ codegen.begin_eqn = "Default_begin_eqn"
    /\ calls' = Append(calls, Call("begin_eqn", 0, render.setlist, render.sublist, NoSym))
    /\ \E all \in {show_eq_all(render.lstr, render.rstr, render.normalized)} :
          render' = [render EXCEPT !.all = all, !.head = all, !.pc = "write"]
    /\ UNCHANGED <<codegen, eqn_style, sum_style, pc, sym_k, eq_i, neqns, cart, py, tablo,
                   html, fatal, model_vars, wrap>>

\* The text goes out whole when no line length is set or when it fits.
show_eq_fprintf ==
    /\ pc = "show_eq"
    /\ render.pc = "write"
    /\ render.len = 0 \/ Len(render.all) <= render.len
    /\ render' = [render EXCEPT !.code = @ \o render.all, !.pc = "end_eqn"]
    /\ calls' = Append(calls, [Call("fprintf", 0, <<>>, <<>>, NoSym) EXCEPT !.out = render.all])
    /\ UNCHANGED <<codegen, eqn_style, sum_style, pc, sym_k, eq_i, neqns, cart, py, tablo,
                   html, fatal, model_vars, wrap>>

\* The call through the wrap_write slot.  A slot no setup has written holds
\* no function of this program: the call crashes, or the slot holds the
\* wrapper of the file, whichever the table's storage makes of it.
codegen_wrap_write(line, addcr, last) ==
    \E impl \in (IF codegen.wrap_write = "unset" THEN {"crash", "Default_wrap_write"}
                 ELSE {codegen.wrap_write}) :
       /\ calls' = Append(calls, [Call("wrap_write", 0, <<>>, <<>>, NoSym) EXCEPT !.out = line])
       /\ IF impl = "crash"
          THEN /\ pc' = "abort"
               /\ fatal' = "call through the unset wrap_write slot"
               /\ wrap' = wrap
               /\ render' = [render EXCEPT !.pc = "crashed"]
          ELSE /\ pc' = "wrap_write"
               /\ fatal' = fatal
               /\ wrap' = [pc |-> "loop", impl |-> impl, line |-> line, addcr |-> addcr,
                           commaok |-> FALSE, len |-> render.len, rest |-> line,
                           code |-> <<>>, breaks |-> {}, seen |-> <<>>]
               /\ render' = [render EXCEPT !.pc = "wrapping", !.last = last,
                                           !.head = SubSeq(@, Len(line) + 2, Len(@))]
       /\ UNCHANGED <<codegen, eqn_style, sum_style, sym_k, eq_i, neqns, cart, py, tablo,
                      html, model_vars>>

\* The for loop over the lines of a text too long for the line, and the call
\* for the last of them.
show_eq_split ==
    /\ pc = "show_eq"
    /\ render.pc \in {"write", "split"}
    /\ render.pc = "write" => (render.len # 0 /\ Len(render.all) > render.len)
    /\ \E n \in {strcspn(render.head)} :
          IF n < Len(render.head)
          THEN codegen_wrap_write(SubSeq(render.head, 1, n), TRUE, FALSE)
          ELSE codegen_wrap_write(render.head, FALSE, TRUE)

\* wrap_write has returned: the loop goes on, or the text is out.
show_eq_wrapped ==
    /\ pc = "wrap_write"
    /\ wrap.pc = "returned"
    /\ render.pc = "wrapping"
    /\ render' = [render EXCEPT !.code = @ \o wrap.code,
                                !.pc = IF render.last THEN "end_eqn" ELSE "split"]
    /\ pc' = "show_eq"
    /\ UNCHANGED <<codegen, eqn_style, sum_style, sym_k, eq_i, neqns, cart, py, tablo,
                   html, calls, fatal, model_vars, wrap>>

\* codegen_end_eqn(eq): Default_end_eqn writes " ;\n\n".
show_eq_end_eqn ==
    /\ pc = "show_eq"
    /\ render.pc = "end_eqn"
    /\ codegen.end_eqn = "Default_end_eqn"
    /\ calls' = Append(calls, Call("end_eqn", 0, render.setlist, render.sublist, NoSym))
    /\ render' = [render EXCEPT !.code = @ \o <<" ", ";", "\n", "\n">>, !.pc = "returned"]
    /\ UNCHANGED <<codegen, eqn_style, sum_style, pc, sym_k, eq_i, neqns, cart, py, tablo,
                   html, fatal, model_vars, wrap>>

\* The line lengths of a run: none set, a short one and a long one.
EqWidths == {0, MaxWidth, 4 * MaxWidth}

\* The sides of an equation: a name, a number, nodes over them, a sum over
\* the goods, whose rendering has a line for each, and a list, which the
\* renderer refuses.
EqSides ==
    {Nam("x"), Num("2"), Lst("G"),
     Node("add", OpStr("add"), Nam("x"), Num("2")),
     Node("log", OpStr("log"), Nil, Nam("x")),
     Node("sum", OpStr("sum"), Nam("G"), Nam("y")),
     Node("mul", OpStr("mul"), Nam("x"), Node("add", OpStr("add"), Nam("x"), Num("2")))}

InitShowEq ==
    /\ lang = "default"
    /\ do_calc = FALSE
    /\ eqns = <<>>
    /\ sym_k = 0
    /\ eq_i = 0
    /\ neqns = 0
    /\ cart = <<>>
    /\ py = py0
    /\ tablo = tablo0
    /\ html = html0
    /\ calls = <<>>
    /\ fatal = ""
    /\ run = 1
    /\ prior = NoPrior
    /\ symtab = [set |-> <<SetR, SetG>>, par |-> <<>>, var |-> <<>>]
    /\ pc = "show_eq"
    /\ wrap = NoWrap
    /\ eqn_style = "scalar"
    /\ sum_style = "scalar"
    /\ codegen = install_all([s \in Slots |-> "unset"], Default_hooks)
    /\ render \in {ShowEqFrame(lhs, rhs, << <<>>, <<>> >>, len, normalized) :
                      lhs \in {Nam("x"), Lst("G"), Node("log", OpStr("log"), Nil, Nam("x"))},
                      rhs \in EqSides, len \in EqWidths, normalized \in BOOLEAN}

NextShowEq ==
    \/ show_eq_lhs
    \/ show_eq_rhs
    \/ show_eq_begin_eqn
    \/ show_eq_fprintf
    \/ show_eq_split
    \/ Default_wrap_write
    \/ show_eq_wrapped
    \/ show_eq_end_eqn

SpecShowEq == InitShowEq /\ [][NextShowEq]_vars

\* Reconciliation runs: endogenous scalars a, y, x, an endogenous B over R, a
\* time-series c and a state ab, any of them left out; an equation for each.
\* A model that has passed is run again, in a new process, less one equation.
ReconVars ==
    <<Var("a", <<"end", "gdp">>, <<>>), Var("y", <<"end", "gdp">>, <<>>),
      Var("x", <<"end", "gdp">>, <<>>), Var("B", <<"end", "gdp">>, <<"R">>),
      Var("c", <<"ets", "pct">>, <<>>), Var("ab", <<"sta", "gdp">>, <<>>)>>

\* The lists of at most MaxVars of them, in the order of ReconVars.
ReconVarLists ==
    {SelectSeq(ReconVars, LAMBDA v : v.name \in names) :
        names \in {ns \in SUBSET {ReconVars[k].name : k \in 1..Len(ReconVars)} :
                      Cardinality(ns) <= MaxVars}}

ReconEqns ==
    {Eqn(<<>>, 1, TRUE, TRUE, <<Ref("a", TRUE, 0)>>),
     Eqn(<<>>, 1, TRUE, TRUE, <<Ref("y", TRUE, 0), Ref("a", FALSE, 0)>>),
     Eqn(<<>>, 1, TRUE, TRUE, <<Ref("x", TRUE, 0)>>),
     Eqn(<<"R">>, 2, TRUE, TRUE, <<Ref("B", TRUE, 0), Ref("c", FALSE, 0)>>),
     Eqn(<<>>, 1, TRUE, TRUE, <<Ref("c", TRUE, 0)>>),
     Eqn(<<>>, 1, TRUE, TRUE, <<Ref("ab", TRUE, 1)>>)}

InitRecon ==
    /\ symtab \in [set : {<<SetR, SetG>>}, par : {<<>>}, var : ReconVarLists]
    /\ eqns \in SeqsUpTo(ReconEqns, MaxReconEqns)
    /\ InitPython

\* The program is run again, on the model less its k-th equation: a new
\* process, so every static is as its initialiser leaves it.
Relaunch ==
    /\ run = 1
    /\ pc = "done"
    /\ \E k \in 1..Len(eqns) :
         /\ eqns' = SubSeq(eqns, 1, k - 1) \o SubSeq(eqns, k + 1, Len(eqns))
         /\ prior' = [outcome |-> "done", eqns |-> eqns, k |-> k]
    /\ run' = 2
    /\ codegen' = [s \in Slots |-> "unset"]
    /\ eqn_style' = "unset"
    /\ sum_style' = "unset"
    /\ pc' = "start"
    /\ sym_k' = 0
    /\ eq_i' = 0
    /\ neqns' = 0
    /\ cart' = <<>>
    /\ py' = py0
    /\ tablo' = tablo0
    /\ html' = html0
    /\ calls' = <<>>
    /\ fatal' = ""
    /\ UNCHANGED <<lang, do_calc, symtab, text_vars>>

NextRecon == NextPython \/ Relaunch

SpecRecon == InitRecon /\ [][NextRecon]_vars

\* write_file is called a second time in the process that has completed a
\* run, on the same model: the capability table and every static are as the
\* first run left them, the locals of write_file are new.  The first run's
\* calls and its final statics are kept for comparison.
Rerun ==
    /\ run = 1
    /\ pc = "done"
    /\ prior' = [outcome |-> "done", eqns |-> eqns, k |-> 0, calls |-> calls, py |-> py]
    /\ run' = 2
    /\ pc' = "begin_file"
    /\ sym_k' = 0
    /\ eq_i' = 0
    /\ neqns' = 0
    /\ cart' = <<>>
    /\ calls' = <<>>
    /\ fatal' = ""
    /\ UNCHANGED <<lang, do_calc, symtab, eqns, codegen, eqn_style, sum_style, py, tablo,
                   html, text_vars>>

NextRerun == NextPython \/ Rerun

SpecRerun == InitAlloc /\ [][NextRerun]_vars

-----------------------------------------------------------------------------
(* What the history of hook calls says, for the properties below.          *)

Positions(op) == {i \in 1..Len(calls) : calls[i].op = op}

\* The calls of hook `op`, in order.
CallsOf(op) == SelectSeq(calls, LAMBDA c : c.op = op)

\* The show_eq calls of equation i, in order.
ShownOf(i) == SelectSeq(calls, LAMBDA c : c.op = "show_eq" /\ c.eq = i)

\* The block of the call at position b is over: a later block, or end_file,
\* has been reached.
BlockIsOver(b) == \E j \in (b + 1)..Len(calls) : calls[j].op \in {"begin_block", "end_file"}

\* An equation the skip test is about: it refers to a name no symbol has, or
\* it lies outside the time domain.
DeclaredNames == {symtab.set[i].name : i \in 1..Len(symtab.set)}
                 \cup {symtab.par[i].name : i \in 1..Len(symtab.par)}
                 \cup {symtab.var[i].name : i \in 1..Len(symtab.var)}

Unsuitable(eq) ==
    \/ \E j \in 1..Len(eq.refs) : eq.refs[j].name \notin DeclaredNames
    \/ ~eq.timeok

\* The product of the numbers f[lo], f[lo + 1], ... of a sequence.
RECURSIVE ProductFrom(_, _)
ProductFrom(f, lo) == IF lo > Len(f) THEN 1 ELSE f[lo] * ProductFrom(f, lo + 1)

StyleMessages == {"Equation style has not been set", "Summation style has not been set"}

\* The driver is past its validation of the styles.
PastValidation == pc \notin {"start", "lang_setup", "begin_file", "validate"}

-----------------------------------------------------------------------------
\* C1: a run of write_file that reaches its end has called declare exactly once
\* per registered symbol, all sets, then all parameters, then all variables,
\* each in registration order; every declare precedes the first begin_block;
\* the equations are taken in file order; end_file is called exactly once, as
\* the last call, after the last show_eq.
C1_RunOrder ==
    pc = "done" =>
      /\ Len(CallsOf("declare")) = Len(symtab.set) + Len(symtab.par) + Len(symtab.var)
      /\ \A k \in 1..Len(CallsOf("declare")) :
            CallsOf("declare")[k].sym.name =
                (symtab.set \o symtab.par \o symtab.var)[k].name
      /\ \A d \in Positions("declare"), b \in Positions("begin_block") : d < b
      /\ \A i, j \in Positions("begin_block") \cup Positions("show_eq") :
            i < j => /\ calls[i].eq <= calls[j].eq
                     /\ calls[j].op = "begin_block" => calls[i].eq < calls[j].eq
      /\ Positions("end_file") = {Len(calls)}

\* A finished python run with three variables declared and two blocks begun.
C1_Witness ==
    /\ pc = "done"
    /\ lang = "python"
    /\ Len(symtab.var) = 3
    /\ Cardinality(Positions("begin_block")) = 2

\* C2: in scalar mode show_eq is called once per element of the Cartesian
\* product of the equation's sets, no tuple twice, the rightmost set varying
\* fastest: the k-th call carries, for the j-th set, the element numbered
\* ((k-1) div (product of the sizes of the sets to its right)) mod (its size).
C2_CartesianOrder ==
    (pc = "show_scalar" /\ cart = <<>>) =>
      LET sets   == eqns[eq_i].sets
          size   == [j \in 1..Len(sets) |->
                        Len((CHOOSE x \in Range(symtab.set) : x.name = sets[j]).elems)]
          stride == [j \in 1..Len(sets) |-> ProductFrom(size, j + 1)]
          total  == IF Len(sets) = 0 THEN 1 ELSE size[1] * stride[1]
          shown  == ShownOf(eq_i)
      IN  /\ Len(shown) = total
          /\ \A k \in 1..Len(shown) :
                /\ shown[k].sets = sets
                /\ Len(shown[k].subs) = Len(sets)
                /\ \A j \in 1..Len(sets) :
                      shown[k].subs[j] =
                          (CHOOSE x \in Range(symtab.set) : x.name = sets[j])
                              .elems[(((k - 1) \div stride[j]) % size[j]) + 1]
          /\ \A k, m \in 1..Len(shown) : k # m => shown[k].subs # shown[m].subs

\* An equation over (R, G) has been shown for its six tuples, in the order
\* (US,A), (US,B), (US,C), (EU,A), (EU,B), (EU,C).
C2_Witness ==
    /\ pc = "show_scalar"
    /\ cart = <<>>
    /\ eqns[eq_i].sets = <<"R", "G">>
    /\ [k \in 1..Len(ShownOf(eq_i)) |-> ShownOf(eq_i)[k].subs] =
          << <<"US", "A">>, <<"US", "B">>, <<"US", "C">>,
             <<"EU", "A">>, <<"EU", "B">>, <<"EU", "C">> >>

\* C3: in scalar mode, when the number of tuples shown for an equation differs
\* from eqncount of that equation, the run ends in a fatal error right after
\* the equation's last show_eq, before any further begin_block and before
\* end_file; when the two are equal the run goes on.
C3_CountChecked ==
    is_eqn_scalar =>
      /\ \A b \in Positions("begin_block") :
            BlockIsOver(b) => Len(ShownOf(calls[b].eq)) = eqns[calls[b].eq].count
      /\ fatal = "Incorrect number of equations written" =>
            /\ pc = "abort"
            /\ Len(ShownOf(eq_i)) # eqns[eq_i].count
            /\ ShownOf(eq_i) # <<>> => calls[Len(calls)].op = "end_eqn"
            /\ calls[Len(calls)].eq = eq_i
            /\ calls[Len(calls)].op \in {"end_eqn", "begin_block"}
      /\ (pc \in {"eqn", "done"} /\ eq_i > 0 /\ Positions("begin_block") # {}) =>
            \A b \in Positions("begin_block") :
                Len(ShownOf(calls[b].eq)) = eqns[calls[b].eq].count

\* A run ended by the count check after the six tuples of its first equation,
\* which announced five; the second equation was never begun.
C3_Witness ==
    /\ fatal = "Incorrect number of equations written"
    /\ Len(ShownOf(eq_i)) = 6
    /\ eqns[eq_i].count = 5
    /\ eq_i = 1
    /\ Len(eqns) = 2
    /\ ~Unsuitable(eqns[2])

\* C4: in vector mode show_eq is called exactly once for each equation that
\* is not skipped, with the equation's whole set list and no subscripts; the
\* Cartesian iterator and the expected count are never touched.
C4_VectorOnce ==
    is_eqn_vector =>
      /\ \A b \in Positions("begin_block") :
            BlockIsOver(b) => Len(ShownOf(calls[b].eq)) = 1
      /\ \A k \in Positions("show_eq") :
            /\ calls[k].sets = eqns[calls[k].eq].sets
            /\ calls[k].subs = <<>>
            /\ Len(ShownOf(calls[k].eq)) = 1
      /\ cart = <<>>
      /\ neqns = 0

\* A finished vector-mode run that showed an equation over (R, G) once.
C4_Witness ==
    /\ is_eqn_vector
    /\ pc = "done"
    /\ \E k \in Positions("show_eq") : calls[k].sets = <<"R", "G">>
    /\ Cardinality(Positions("show_eq")) = 2

\* C5: the drivers of Default (tablo uses it too) and of python never call
\* begin_block or show_eq for an equation that refers to an undeclared symbol
\* or fails the time check, and a finished run of theirs has called both for
\* every other equation; a finished run of the HTML driver has called both for
\* every equation.
C5_SkipPolicy ==
    /\ lang \in {"default", "tablo", "python"} =>
          \A k \in Positions("begin_block") \cup Positions("show_eq") :
              ~Unsuitable(eqns[calls[k].eq])
    /\ pc = "done" =>
          \A i \in 1..Len(eqns) :
              (lang = "html" \/ ~Unsuitable(eqns[i])) =>
                  /\ \E k \in Positions("begin_block") : calls[k].eq = i
                  /\ \E k \in Positions("show_eq") : calls[k].eq = i

\* A finished default run that skipped one equation and showed the other.
C5_Witness ==
    /\ lang \in {"default", "tablo", "python"}
    /\ pc = "done"
    /\ Len(eqns) = 2
    /\ Unsuitable(eqns[1])
    /\ ~Unsuitable(eqns[2])
    /\ Cardinality(Positions("begin_block")) = 1

\* C6 as stated: when a style is unset the run ends in the fatal configuration
\* error before begin_file has been called.
C6_ValidatedBeforeBeginFile ==
    (PastValidation /\ (eqn_style = "unset" \/ sum_style = "unset")) =>
       /\ pc = "abort"
       /\ fatal \in StyleMessages
       /\ calls = <<>>

\* C6, amended: the styles are validated right after begin_file: when a style
\* is unset the run ends in the fatal configuration error with begin_file
\* called once and nothing else: no declare, no begin_block, no show_eq.
C6_ValidatedAfterBeginFile ==
    (PastValidation /\ (eqn_style = "unset" \/ sum_style = "unset")) =>
       /\ pc = "abort"
       /\ fatal \in StyleMessages
       /\ [k \in 1..Len(calls) |-> calls[k].op] = <<"begin_file">>

\* A run ended by the validation of the styles.
C6_Witness ==
    /\ pc = "abort"
    /\ fatal = "Summation style has not been set"
    /\ eqn_style = "scalar"
    /\ Len(calls) = 1

-----------------------------------------------------------------------------
(* What the registry and the vector lengths say, for the properties below. *)

\* The follower vectors and the driver of each.
Followers == {Z1R, ZER, EXZ, YJR, YXR, X1R}

Drivers == {Z1L, ZEL, J1L, X1L}

DriverOf(f) ==
    CASE f = Z1R           -> Z1L
      [] f \in {ZER, EXZ}  -> ZEL
      [] f = YJR           -> J1L
      [] f \in {YXR, X1R}  -> X1L

\* The element count of the parameter or variable of that name.
ElementsOf(name) ==
    Card((CHOOSE v \in Range(symtab.par \o symtab.var) : v.name = name).domain)

\* The elements the registered symbols hold in vector d.
ElementsIn(d) ==
    SumSeq([k \in 1..Len(py.v_head) |->
               IF \E j \in 1..6 : py.v_head[k].vecid[j] = d
               THEN ElementsOf(py.v_head[k].str) ELSE 0])

\* Names folded to lower case, and the dictionary order of the folded names.
Folded ==
    [a |-> "a", A |-> "a", ab |-> "ab", B |-> "b", b |-> "b", c |-> "c",
     p |-> "p", P |-> "p", q |-> "q", x |-> "x", y |-> "y"]

FoldedRank == [a |-> 1, ab |-> 2, b |-> 3, c |-> 4, p |-> 5, q |-> 6, x |-> 7, y |-> 8]

\* The parameters and variables among the symbols declare has been called for.
DeclaredSoFar ==
    {i \in 1..sym_k : (symtab.set \o symtab.par \o symtab.var)[i].type # "set"}

-----------------------------------------------------------------------------
\* C7: a follower vector takes the offset its driver vector was given for the
\* same variable (Z1R from Z1L; ZER and EXZ from ZEL; YJR from J1L; YXR and X1R
\* from X1L); the follower vectors' lengths never move, and a driver vector's
\* length is the origin plus the element counts of the variables placed in it.
C7_FollowersSynchronized ==
    PastValidation =>
      /\ \A k \in 1..Len(py.v_head) : \A j \in 1..6 :
            py.v_head[k].vecid[j] \in Followers =>
               \E j2 \in 1..6 :
                  /\ py.v_head[k].vecid[j2] = DriverOf(py.v_head[k].vecid[j])
                  /\ py.v_head[k].vecoff[j] = py.v_head[k].vecoff[j2]
      /\ \A f \in Followers : py.vecinfo[f] = PYTHON_ORIGIN
      /\ \A d \in Drivers : py.vecinfo[d] = PYTHON_ORIGIN + ElementsIn(d)

\* A lagged state variable whose three vectors start at element 2 of X: the
\* driver X1L was advanced by the two elements of an earlier variable, and the
\* followers YXR and X1R were given the same offset.
C7_Witness ==
    \E k \in 1..Len(py.v_head) :
       /\ py.v_head[k].type = "stl"
       /\ py.v_head[k].vecid = <<0, X1L, 0, YXR, X1R, 0>>
       /\ py.v_head[k].vecoff = <<0, 2, 0, 2, 2, 0>>
       /\ py.vecinfo[X1L] = 4

\* C10: after any sequence of successful declares the registry is strictly
\* ascending in case-insensitive dictionary order, so no two of its names are
\* equal but for case, and it holds exactly the parameters and variables
\* declared so far.
C10_RegistrySorted ==
    (PastValidation /\ fatal = "") =>
      /\ \A k \in 1..(Len(py.v_head) - 1) :
            FoldedRank[Folded[py.v_head[k].str]] < FoldedRank[Folded[py.v_head[k + 1].str]]
      /\ Len(py.v_head) = Cardinality(DeclaredSoFar)
      /\ {py.v_head[k].str : k \in 1..Len(py.v_head)} =
            {(symtab.set \o symtab.par \o symtab.var)[i].name : i \in DeclaredSoFar}

\* Variables declared as c, ab, B and a parameter p stand in the registry as
\* ab, B, c, p.
C10_Witness ==
    /\ [k \in 1..Len(symtab.var) |-> symtab.var[k].name] = <<"c", "ab", "B">>
    /\ [k \in 1..Len(py.v_head) |-> py.v_head[k].str] = <<"ab", "B", "c", "p">>

-----------------------------------------------------------------------------
(* What a finished reconciliation says, for the properties below.          *)

ReconMessage == "Counts of equations and endogenous variables do not match."

\* end_file has been called: it was the last call of the run.
AfterEndFile ==
    /\ pc \in {"done", "abort"}
    /\ calls # <<>>
    /\ calls[Len(calls)].op = "end_file"

\* The variable is referred to by some equation of eqs.
UsedIn(v, eqs) ==
    \E i \in 1..Len(eqs) : \E j \in 1..Len(eqs[i].refs) : eqs[i].refs[j].name = v.name

\* The elements of the endogenous variables that no equation of eqs uses.
UnusedIn(eqs) ==
    SumSeq([k \in 1..Len(symtab.var) |->
               IF (\E j \in 1..Len(symtab.var[k].attrs) : symtab.var[k].attrs[j] = "end")
                  /\ ~UsedIn(symtab.var[k], eqs)
               THEN Card(symtab.var[k].domain) ELSE 0])

\* The length reserved in the four left-hand driver vectors.
Reserved ==
    (py.vecinfo[Z1L] - PYTHON_ORIGIN) + (py.vecinfo[ZEL] - PYTHON_ORIGIN)
      + (py.vecinfo[J1L] - PYTHON_ORIGIN) + (py.vecinfo[X1L] - PYTHON_ORIGIN)

\* C8: PYTHON_end_file raises the fatal mismatch exactly when the length
\* reserved in Z1L, ZEL, J1L and X1L, less the elements of the endogenous
\* variables that are declared and unused, differs from the number of
\* scalar equations show_eq has written.
C8_Reconciliation ==
    AfterEndFile =>
      /\ (fatal = ReconMessage) <=>
            (Reserved - UnusedIn(eqns) # Cardinality(Positions("show_eq")))
      /\ (pc = "done") <=>
            (Reserved - UnusedIn(eqns) = Cardinality(Positions("show_eq")))

\* A run that passes with three elements reserved, one of them in X1L and
\* one of them of an endogenous variable no equation uses, and two equations
\* written.
C8_Witness ==
    /\ AfterEndFile
    /\ pc = "done"
    /\ Reserved = 3
    /\ py.vecinfo[X1L] = PYTHON_ORIGIN + 1
    /\ UnusedIn(eqns) = 1
    /\ Cardinality(Positions("show_eq")) = 2

\* The models C9 is about: n endogenous scalar variables and n scalar
\* equations, all of them generated, that passed reconciliation.
C9_Model ==
    /\ run = 2
    /\ prior.outcome = "done"
    /\ Len(prior.eqns) = Len(symtab.var)
    /\ \A k \in 1..Len(symtab.var) :
          /\ \E j \in 1..Len(symtab.var[k].attrs) : symtab.var[k].attrs[j] = "end"
          /\ symtab.var[k].domain = <<>>
    /\ \A i \in 1..Len(prior.eqns) :
          /\ ~Unsuitable(prior.eqns[i])
          /\ prior.eqns[i].sets = <<>>
          /\ prior.eqns[i].count = 1

\* C9 as stated: such a model, less one of its equations, always ends in the
\* fatal mismatch at end_file.
C9_RemovalAlwaysFails ==
    (C9_Model /\ pc \in {"done", "abort"}) => (AfterEndFile /\ fatal = ReconMessage)

\* C9, amended: such a model, less one of its equations, reaches end_file, and
\* ends there in the fatal mismatch unless the removed equation held the only
\* references to exactly one variable: that variable is then counted as
\* unused, the counts agree again, and the run passes.
C9_RemovalFailsUnlessOrphan ==
    (C9_Model /\ pc \in {"done", "abort"}) =>
       /\ AfterEndFile
       /\ UnusedIn(prior.eqns) = 0
       /\ (fatal = ReconMessage) <=> (UnusedIn(eqns) # 1)
       /\ (pc = "done") <=> (UnusedIn(eqns) = 1)

\* Three variables and their three equations passed; with the equation that
\* alone referred to x removed, the run passes again.
C9_Witness ==
    /\ C9_Model
    /\ Len(symtab.var) = 3
    /\ pc = "done"
    /\ UnusedIn(eqns) = 1
    /\ ~UsedIn(symtab.var[3], eqns)

-----------------------------------------------------------------------------
\* C11: in a python run, declaring a parameter or a variable whose name equals,
\* but for case, the name of one declared before it ends the run in the fatal
\* error "Multiple definitions", wherever the earlier entry stands in the
\* registry; the registry is left as it was, and no begin_block and no show_eq
\* is ever called.
C11_DuplicateIsFatal ==
    \A k \in DeclaredSoFar :
       (\E j \in DeclaredSoFar : j < k /\ Folded[DeclareSeq[j].name] = Folded[DeclareSeq[k].name]) =>
          /\ pc = "abort"
          /\ fatal = "Multiple definitions of variable in PYTHON_declare"
          /\ k = sym_k
          /\ Len(py.v_head) = Cardinality(DeclaredSoFar) - 1
          /\ Positions("begin_block") \cup Positions("show_eq") = {}

\* With the parameter b and the variables a and c registered, the variable B
\* meets b in the middle of the list: the run is over.
C11_Witness ==
    /\ pc = "abort"
    /\ [k \in 1..Len(py.v_head) |-> py.v_head[k].str] = <<"a", "b", "c">>
    /\ DeclareSeq[sym_k].name = "B"
    /\ eqns # <<>>

-----------------------------------------------------------------------------
(* What the kind table and the order of the declarations say about a       *)
(* reference, for the property below.                                      *)

\* The parameter or variable of that name.
IdentNamed(name) == CHOOSE v \in Range(symtab.par \o symtab.var) : v.name = name

\* Its kind: "par" for a parameter, the kind among its attributes otherwise.
KindOfIdent(v) ==
    IF v.type = "par" THEN "par"
    ELSE CHOOSE t \in KindTags : \E j \in 1..Len(v.attrs) : v.attrs[j] = t

\* The entry of the kind table for a kind and a context: side, then shift.
TableEntry(kind, lhs, dt) ==
    (CHOOSE row \in Range(vlist) : row.type = kind).vecid[(IF lhs THEN 0 ELSE 3) + dt + 2]

\* The vector a reference is to get, 0 when it is to be refused.
ExpectedVector(ref) ==
    IF ref.dt < -1 \/ ref.dt > 1 THEN 0
    ELSE TableEntry(KindOfIdent(IdentNamed(ref.name)), ref.lhs, ref.dt)

\* The vector whose running length gives a vector's offsets.
LeaderOf(vec) == IF vec \in Followers THEN DriverOf(vec) ELSE vec

\* The place of that name in the order of the declarations.
DeclaredAt(name) == CHOOSE i \in 1..Len(DeclareSeq) : DeclareSeq[i].name = name

\* The offset the declaration of `name` gave it in vector vec: the origin plus
\* the elements of the symbols declared before it that take room there.
ExpectedOffset(name, vec) ==
    PYTHON_ORIGIN +
    SumSeq([i \in 1..(DeclaredAt(name) - 1) |->
               IF DeclareSeq[i].type # "set"
                  /\ \E j \in 1..6 :
                        TableEntry(KindOfIdent(DeclareSeq[i]), j <= 3, ((j - 1) % 3) - 1)
                            = LeaderOf(vec)
               THEN Card(DeclareSeq[i].domain) ELSE 0])

\* What get_msgname owes the n-th name of the show_eq call at position c.
ContextOutcome(c, ref, r, last) ==
    /\ (r.err = "") <=> (ExpectedVector(ref) # 0)
    /\ r.err = "" =>
          /\ r.vecid = ExpectedVector(ref)
          /\ r.off = ExpectedOffset(ref.name, r.vecid)
    /\ r.err # "" =>
          /\ last
          /\ c = Len(calls)
          /\ pc = "abort"
          /\ fatal = r.err

\* C12: for a registered name of kind k referred to on side s with shift dt,
\* get_msgname ends the run in a fatal error when dt is below -1 or above 1
\* or when the kind table has no vector for (k, s, dt); otherwise it returns
\* the table's vector for (k, s, dt) and the offset the declaration gave that
\* context.
C12_ContextChecked ==
    \A c \in Positions("show_eq") : \A n \in 1..Len(calls[c].out) :
       ContextOutcome(c, eqns[calls[c].eq].refs[n], calls[c].out[n],
                      n = Len(calls[c].out))

\* A lagged state a declared after a state B over R: on the right side under
\* a lag it is YXR at offset 2, and on the left side under a lead it is
\* refused, which ends the run.
C12_Witness ==
    /\ pc = "abort"
    /\ fatal = "Invalid context for variable"
    /\ eqns[1].refs = <<Ref("a", FALSE, -1), Ref("a", TRUE, 1)>>
    /\ calls[Len(calls)].out =
          <<[err |-> "", vecid |-> YXR, off |-> 2],
            [err |-> "Invalid context for variable", vecid |-> 0, off |-> 0]>>

-----------------------------------------------------------------------------
(* What the text written by wrap_write says, for the properties below.     *)

\* The characters a line may be broken at.
IsBreakChar(ch, commaok) ==
    \/ ch \in {" ", "\t", "\n", "\f", "\r"}
    \/ ch \in {"+", "-", "*", "/", "=", "^"}
    \/ (commaok /\ ch = ",")

\* The character that follows the newline at place b and its three spaces:
\* written already, or the first of the text still to be written; "" when
\* there is none.
AfterBreak(b) ==
    IF b + 4 <= Len(wrap.code) THEN wrap.code[b + 4]
    ELSE IF wrap.rest # <<>> THEN wrap.rest[1]
    ELSE ""

\* The length of the longest physical line of a text.
RECURSIVE LongestLine(_, _, _)
LongestLine(text, cur, best) ==
    IF text = <<>> THEN (IF cur > best THEN cur ELSE best)
    ELSE IF Head(text) = "\n"
    THEN LongestLine(Tail(text), 0, IF cur > best THEN cur ELSE best)
    ELSE LongestLine(Tail(text), cur + 1, best)

\* The text t cannot be wrapped at line length len: it is longer, it has no
\* newline among its first len characters, and none of its characters at
\* offsets 1..len from its start is a break character.
Stuck(t, len, commaok) ==
    /\ Len(t) > len
    /\ \A i \in 0..(len - 1) : t[i + 1] # "\n"
    /\ \A i \in 1..len : ~IsBreakChar(t[i + 1], commaok)

\* C13 as stated: the character written just before each newline the wrapper
\* puts in is whitespace, one of + - * / = ^, or a comma when commas are safe.
C13_BreakAfterBreakChar ==
    wrap.pc # "none" =>
       \A b \in wrap.breaks : b > 1 /\ IsBreakChar(wrap.code[b - 1], wrap.commaok)

\* C13, amended: every newline the wrapper puts in stands immediately before a
\* break character (whitespace, one of + - * / = ^, or a comma when commas are
\* safe): the newline follows at least one character of the text, is followed
\* by three spaces, and the break character opens the continuation line.
C13_BreakBeforeBreakChar ==
    wrap.pc # "none" =>
       \A b \in wrap.breaks :
          /\ b > 1
          /\ SubSeq(wrap.code, b, b + 3) = <<"\n", " ", " ", " ">>
          /\ IsBreakChar(AfterBreak(b), wrap.commaok)

\* The line aa+a at line length 3 is written as aa, then +a on the
\* continuation line: the break follows an a and precedes the +.
C13_Witness ==
    /\ wrap.pc = "returned"
    /\ wrap.line = <<"a", "a", "+", "a">>
    /\ wrap.len = 3
    /\ wrap.breaks = {3}
    /\ wrap.code = <<"a", "a", "\n", " ", " ", " ", "+", "a">>

\* C14 as stated: every physical line wrap_write has written, the three spaces
\* of a continuation line counted, is at most the line length long.
C14_WidthBound ==
    wrap.pc = "returned" => LongestLine(wrap.code, 0, 0) <= wrap.len

-----------------------------------------------------------------------------
(* The renderers' parentheses.                                             *)

\* The parentheses open after the first k strings of a text.
ParenDepth(text, k) ==
    Cardinality({i \in 1..k : text[i] = "("}) - Cardinality({i \in 1..k : text[i] = ")"})

\* The text is one pair of parentheses around the rest of it.
Enclosed(text) ==
    /\ Len(text) >= 2
    /\ text[1] = "("
    /\ text[Len(text)] = ")"
    /\ \A k \in 1..(Len(text) - 1) : ParenDepth(text, k) > 0

Inner(text) == SubSeq(text, 2, Len(text) - 1)

\* The table of parentheses: does a child of kind t under a parent of kind
\* prevtype get parentheses of its own?  The code renderer adds lag and led
\* to the children that neg, dvd and pow leave bare.
ParenTable(prevtype, t, code) ==
    CASE prevtype \in {"nul", "add", "sub"} -> t = "neg"
      [] prevtype = "mul" -> t \in {"add", "sub", "dvd", "neg"}
      [] prevtype = "neg" ->
            t \notin {"nam", "num", "mul", "log", "exp", "pow", "sum", "prd"}
                      \cup (IF code THEN {"lag", "led"} ELSE {})
      [] prevtype = "dvd" ->
            t \notin {"nam", "num", "pow", "sum", "prd", "log", "exp"}
                      \cup (IF code THEN {"lag", "led"} ELSE {})
      [] prevtype = "pow" ->
            t \notin {"nam", "num", "log", "exp", "sum", "prd"}
                      \cup (IF code THEN {"lag", "led"} ELSE {})
      [] prevtype \in {"log", "exp", "lag", "led"} -> TRUE
      [] OTHER -> FALSE

Returned(fn) == render.pc = "returned" /\ render.fn = fn

\* C16: the diagnostic renderer returns the text of a child in parentheses
\* of its own exactly when the table says so for the kinds of the parent and
\* of the child (a list, which is written in parentheses, aside).
C16_SpprintTable ==
    (Returned("spprint") /\ render.cur.type # "lst") =>
        (Enclosed(render.text) <=> ParenTable(render.prevtype, render.cur.type, FALSE))

\* The text of the node has parentheses the node did not ask for: in scalar
\* form a sum or a product is written in a pair of parentheses, and so is a
\* node that is passed through to one.
RECURSIVE IsEnveloped(_)
IsEnveloped(cur) ==
    /\ cur # Nil
    /\ sum_style = "scalar"
    /\ \/ cur.type \in {"sum", "prd"}
       \/ cur.type \in {"lag", "led"} /\ IsEnveloped(cur.r)
       \/ cur.type = "dom" /\ IsEnveloped(cur.l)

OwnParens(text, cur) ==
    IF IsEnveloped(cur) THEN Enclosed(text) /\ Enclosed(Inner(text)) ELSE Enclosed(text)

\* C17: the code renderer returns the text of a child in parentheses of its
\* own exactly when the table says so for the kinds of the parent and of the
\* child: always under log, exp, lag and led, and under neg, dvd and pow for
\* every kind they do not exempt, dom among them.
C17_ShowNodeTable ==
    Returned("show_node") =>
        (OwnParens(render.text, render.cur)
            <=> ParenTable(render.prevtype, render.cur.type, TRUE))

\* A text without its layout: the line breaks and the blanks taken out.
Visible(text) == SelectSeq(text, LAMBDA tok : tok \notin {"\n      ", " \n        ", " "})

\* The texts of the calls from the k-th on, with the operator between them,
\* each in parentheses when `paren`.
RECURSIVE JoinedTerms(_, _, _, _)
JoinedTerms(kids, k, op, paren) ==
    IF k > Len(kids) THEN <<>>
    ELSE (IF k > 1 THEN <<op>> ELSE <<>>)
         \o (IF paren THEN <<"(">> \o kids[k].text \o <<")">> ELSE kids[k].text)
         \o JoinedTerms(kids, k + 1, op, paren)

\* C18: a sum or a product over the set S is written, in scalar form, as
\* one rendering of its body for each element of S, in the order of S, the
\* element added to the subscripts; the renderings are joined by + or by *,
\* each term of a product in parentheses, all of it in one pair of
\* parentheses.  In vector form it is one rendering of the body between
\* begin_func(the function's name, S) and end_func().
C18_SummationRendering ==
    (Returned("show_node") /\ render.cur.type \in {"sum", "prd"}) =>
        LET cur   == render.cur
            S     == cur.l.str
            elems == setelements(S)
            kids  == render.kids
        IN  IF sum_style = "scalar"
            THEN /\ Len(kids) = Len(elems)
                 /\ \A k \in 1..Len(kids) :
                       /\ kids[k].prev = cur.type
                       /\ kids[k].node = cur.r
                       /\ kids[k].setlist = Append(render.setlist, S)
                       /\ kids[k].sublist = Append(render.sublist, elems[k])
                 /\ Visible(render.text) =
                       <<"(">>
                       \o Visible(JoinedTerms(kids, 1, IF cur.type = "prd" THEN "*" ELSE "+",
                                              cur.type = "prd"))
                       \o <<")">>
            ELSE /\ Len(kids) = 1
                 /\ kids[1].prev = cur.type
                 /\ kids[1].node = cur.r
                 /\ kids[1].setlist = Append(render.setlist, S)
                 /\ render.text = codegen_begin_func(cur.str, <<S>>).text
                                     \o kids[1].text \o codegen_end_func

\* The sum of y over G = {A, B, C}, in scalar form: (y(A) + y(B) + y(C)).
C18_Witness ==
    /\ Returned("show_node")
    /\ sum_style = "scalar"
    /\ render.cur = Node("sum", "sum", Nam("G"), Nam("y"))
    /\ render.sublist = <<>>
    /\ Len(render.kids) = 3
    /\ Visible(render.text) = <<"(", "y", "(", "A", ")", "+", "y", "(", "B", ")", "+",
                                "y", "(", "C", ")", ")">>

\* The text of a node of two sides without the parentheses the table gives
\* it.
Bare(text) == IF Enclosed(text) THEN Inner(text) ELSE text

\* C19: in both renderers the text of a difference is its left side, the
\* minus, and its right side, which is in parentheses of its own exactly
\* when it is a sum or a difference, whether or not the difference itself is
\* in parentheses; the text of any other node of two sides is the left
\* side, the operator and the right side with nothing added.
C19_RightSideWrapped ==
    (/\ render.pc = "returned"
     /\ Len(render.kids) = 2
     /\ render.cur.type \notin {"sum", "prd", "nam", "num"}) =>
        Bare(Visible(render.text)) =
            Visible(render.kids[1].text
                    \o <<render.cur.str>>
                    \o (IF render.cur.type = "sub" /\ render.cur.r.type \in {"add", "sub"}
                        THEN <<"(">> \o render.kids[2].text \o <<")">>
                        ELSE render.kids[2].text))

\* x - (x + 2) under a product: (x-(x+2)).
C19_Witness ==
    /\ Returned("show_node")
    /\ render.prevtype = "mul"
    /\ render.cur = Node("sub", "-", Nam("x"), Node("add", "+", Nam("x"), Num("2")))
    /\ render.text = <<"(", "x", "-", "(", "x", "+", "2", ")", ")">>

-----------------------------------------------------------------------------
(* The capability table after the setups.                                  *)

\* The operations each target supplies, and the prefix of their names.
Supplied(target) ==
    CASE target = "python" ->
            {"begin_file", "end_file", "declare", "begin_eqn", "end_eqn", "begin_block",
             "wrap_write", "write_file", "show_eq", "show_node"}
      [] target = "tablo" ->
            {"begin_file", "end_file", "declare", "begin_block", "end_eqn", "begin_func"}
      [] target = "html" ->
            {"begin_file", "end_file", "declare", "begin_block", "end_eqn", "begin_func",
             "end_func", "spprint", "write_file", "show_eq", "show_node"}
      [] OTHER -> {}

Prefix(target) ==
    CASE target = "python" -> "PYTHON_" [] target = "tablo" -> "Tablo_"
      [] target = "html" -> "HTML_" [] OTHER -> "Default_"

OperationSlots ==
    {"begin_file", "end_file", "declare", "begin_block", "begin_eqn", "end_eqn",
     "begin_func", "end_func", "show_node", "show_eq", "write_file", "wrap_write", "spprint"}

\* C20: once Default_setup and the setup of the target have run, every
\* operation slot holds the operation of the target when the target supplies
\* one, and Default's otherwise: wrap_write holds Default_wrap_write for the
\* default target and for each target without a wrap_write of its own.
C20_CapabilityInstallation ==
    pc \notin {"start", "lang_setup"} =>
        \A slot \in OperationSlots :
            codegen[slot] = (IF slot \in Supplied(lang) THEN Prefix(lang) ELSE "Default_") \o slot

-----------------------------------------------------------------------------
(* A second run in the same process.                                       *)

\* C21: the second run of the python target in a process starts, after its
\* begin_file, from the state the first run started from (no variable in
\* the registry, every vector at the origin, blocks, scalar equations and
\* vars numbered from 1), and it ends as the first run did, with the same
\* calls, the same offsets and the same counts.
C21_SessionFresh ==
    run = 2 =>
        /\ pc = "validate" => py = PYTHON_begin_file(py0)
        /\ pc \in {"done", "abort"} => (pc = "done" /\ calls = prior.calls /\ py = prior.py)

-----------------------------------------------------------------------------
(* The kind of an identifier.                                              *)

\* The kind tags among the attributes of a symbol.
TagsOf(sym) == {t \in KindTags : ismember(t, symattrib(sym))}

\* The declare of the k-th symbol has returned.
Declared(k) == k <= sym_k /\ ~(pc = "abort" /\ k = sym_k)

RegistryEntries(name) == {e \in Range(py.v_head) : e.str = name}

\* C22: a variable whose declare returns has exactly one kind tag among its
\* attributes, and is registered with that kind; the declare of a variable
\* with no kind tag, or with two or more, ends the run with a fatal error
\* and leaves the variable out of the registry; a parameter whose declare
\* returns is registered with the kind par, whatever its attributes.
C22_KindTags ==
    \A k \in 1..sym_k :
        LET sym == DeclareSeq[k]
        IN  /\ (istype(sym, "var") /\ Declared(k)) =>
                  /\ Cardinality(TagsOf(sym)) = 1
                  /\ \E e \in RegistryEntries(sym.name) : e.type \in TagsOf(sym)
            /\ (istype(sym, "var") /\ Cardinality(TagsOf(sym)) # 1) =>
                  /\ k = sym_k
                  /\ pc = "abort"
                  /\ fatal \in {"No type declared for variable",
                                "Multiple variable types for variable"}
                  /\ RegistryEntries(sym.name) = {}
            /\ (istype(sym, "par") /\ Declared(k)) =>
                  \A e \in RegistryEntries(sym.name) : e.type = "par"
            /\ (istype(sym, "par") /\ Declared(k)) => RegistryEntries(sym.name) # {}

\* After the parameter p, which has the tags exo and sta, and the variable B,
\* the variable a with the tags end and sta ends the run.
C22_Witness ==
    /\ pc = "abort"
    /\ fatal = "Multiple variable types for variable"
    /\ sym_k = 5
    /\ DeclareSeq[5].attrs = <<"end", "sta", "gdp">>
    /\ DeclareSeq[3].attrs = <<"exo", "sta">>
    /\ \E e \in RegistryEntries("p") : e.type = "par"
    /\ RegistryEntries("a") = {}

-----------------------------------------------------------------------------
(* The files of the Tablo read statements.                                 *)

\* The first character of a header.
FirstLetter(header) == IF header = "" THEN 0 ELSE Bytes[header][1]

-----------------------------------------------------------------------------
(* The protocol of show_eq.                                                *)

CallOps == [i \in 1..Len(calls) |-> calls[i].op]

TextOps == {"fprintf", "wrap_write"}

\* C24: show_eq renders the left side, then the right side, and only then
\* calls begin_eqn, so a fatal error of the renderer leaves begin_eqn and
\* end_eqn uncalled; no text of the equation is written before begin_eqn or
\* after end_eqn; and a show_eq that returns has called begin_eqn once,
\* first, and end_eqn once, last, with the text between them: one write of
\* the whole text when no line length is set or the text fits, calls of
\* wrap_write otherwise.
C24_ShowEqProtocol ==
    /\ render.pc \in {"lhs", "rhs", "fatal"} => calls = <<>>
    /\ render.pc = "rhs" => render.rstr = <<>> /\ render.lstr # <<>>
    /\ \A i \in 1..Len(calls) :
          /\ calls[i].op = "begin_eqn" => i = 1
          /\ calls[i].op \in TextOps => (i > 1 /\ calls[1].op = "begin_eqn")
          /\ calls[i].op = "end_eqn" => (i = Len(calls) /\ i > 2)
    /\ render.pc = "returned" =>
          /\ Len(calls) >= 3
          /\ calls[1].op = "begin_eqn"
          /\ calls[Len(calls)].op = "end_eqn"
          /\ IF render.len = 0 \/ Len(render.all) <= render.len
             THEN CallOps = <<"begin_eqn", "fprintf", "end_eqn">> /\ calls[2].out = render.all
             ELSE \A i \in 2..(Len(calls) - 1) : calls[i].op = "wrap_write"

\* A sum too long for the line has gone through wrap_write line by line, and
\* show_eq has returned.
C24_Witness ==
    /\ render.pc = "returned"
    /\ render.len # 0
    /\ Len(render.all) > render.len
    /\ Len(calls) >= 4
    /\ CallOps[1] = "begin_eqn"
    /\ CallOps[2] = "wrap_write"
    /\ CallOps[Len(calls)] = "end_eqn"
    /\ wrap.breaks # {}


-----------------------------------------------------------------------------
(* The slots of the vectors.                                               *)

NamedVectors == (NUL + 1)..(UNK - 1)

SelfDrivers == {Z1L, ZEL, J1L, X1L, EXO, PAR}

\* The slots variable k of the registry holds in vector v.
SlotsOf(k, v) ==
    UNION {{py.v_head[k].vecoff[j] + i : i \in 0..(ElementsOf(py.v_head[k].str) - 1)} :
              j \in {j \in 1..6 : py.v_head[k].vecid[j] = v}}

\* C25: after successful declares, the slot ranges two variables hold in the
\* same vector are disjoint, and in each of Z1L, ZEL, J1L, X1L, EXO and PAR
\* the ranges are exactly the slots from the origin up to the running length,
\* whose distance from the origin is the number of slots held.
C25_SlotRangesDisjoint ==
    (PastValidation /\ fatal = "") =>
      /\ \A v \in NamedVectors : \A k1, k2 \in 1..Len(py.v_head) :
            k1 # k2 => SlotsOf(k1, v) \cap SlotsOf(k2, v) = {}
      /\ \A d \in SelfDrivers :
            /\ UNION {SlotsOf(k, d) : k \in 1..Len(py.v_head)}
                  = PYTHON_ORIGIN..(py.vecinfo[d] - 1)
            /\ py.vecinfo[d] = PYTHON_ORIGIN
                  + SumSeq([k \in 1..Len(py.v_head) |-> Cardinality(SlotsOf(k, d))])

\* A state variable and a lagged state variable of two elements each share
\* X1L and YXR, one after the other, and a parameter holds the slots of PAR.
C25_Witness ==
    /\ fatal = ""
    /\ py.vecinfo[X1L] = 4
    /\ py.vecinfo[PAR] = 2
    /\ \E k1, k2 \in 1..Len(py.v_head) :
          /\ py.v_head[k1].type = "sta"
          /\ py.v_head[k2].type = "stl"
          /\ SlotsOf(k1, YXR) \cup SlotsOf(k2, YXR) = 0..3
          /\ SlotsOf(k1, YXR) \cap SlotsOf(k2, YXR) = {}
          /\ SlotsOf(k2, X1R) = SlotsOf(k2, X1L)

-----------------------------------------------------------------------------
(* The order of the contexts.                                              *)

FollowerFaults ==
    {"Z1R without Z1L", "YJR without J1L", "ZER or EXZ without ZEL",
     "YXR or X1R without X1L"}

\* In the vector row `vecid` of a kind or of a registered variable, each
\* follower vector stands after the driver of its group.
DriverFirst(vecid) ==
    \A j \in 1..6 :
       vecid[j] \in Followers => \E j2 \in 1..(j - 1) : vecid[j2] = DriverOf(vecid[j])

\* C26: no run ends in one of the four follower-without-driver faults: in
\* the row of every kind the driver of a group stands before its followers
\* in the order the contexts are processed, so that whenever a declare
\* reaches a follower context it has already given the driver its offset,
\* and every variable registered has its followers at that offset.
C26_FollowerFaultsUnreachable ==
    /\ fatal \notin FollowerFaults
    /\ \A vi \in 1..Len(vlist) : DriverFirst(vlist[vi].vecid)
    /\ \A k \in 1..Len(py.v_head) :
          /\ DriverFirst(py.v_head[k].vecid)
          /\ py.v_head[k].vecid = vlist[KindIndex(py.v_head[k].type)].vecid

\* A variable of kind ets, the kind with two followers, was declared after
\* another and has ZER and EXZ at the offset ZEL gave it.
C26_Witness ==
    /\ fatal = ""
    /\ \E k \in 1..Len(py.v_head) :
          /\ py.v_head[k].type = "ets"
          /\ py.v_head[k].vecid = <<0, ZEL, 0, 0, ZER, EXZ>>
          /\ py.v_head[k].vecoff = <<0, 1, 0, 0, 1, 1>>

-----------------------------------------------------------------------------
(* The count of the scalar equations.                                      *)

\* The equations whose blocks have been begun, in the order of the calls.
BlocksBegun == SelectSeq(calls, LAMBDA c : c.op = "begin_block")

\* The range of scalar equations begin_block announced for the n-th block:
\* it starts where the blocks before it end.
AnnouncedStart(n) ==
    1 + SumSeq([k \in 1..(n - 1) |-> eqncount(eqns[BlocksBegun[k].eq])])

AnnouncedEnd(n) == AnnouncedStart(n) + eqncount(eqns[BlocksBegun[n].eq]) - 1

\* C27: in the python target the next scalar equation number is 1 plus the
\* expected counts of the blocks begun so far, so that the ranges of
\* successive blocks start at 1 and each starts one after the end of the one
\* before; and when end_file has been reached the count it reconciles,
\* MSGPROC_scalar - 1, is the number of show_eq calls of the run.
C27_EquationCounting ==
    (lang = "python" /\ PastValidation) =>
      /\ py.MSGPROC_scalar = AnnouncedStart(Len(BlocksBegun) + 1)
      /\ py.MSGPROC_block = 1 + Len(BlocksBegun)
      /\ \A n \in 1..Len(BlocksBegun) :
            /\ AnnouncedStart(n) = (IF n = 1 THEN 1 ELSE AnnouncedEnd(n - 1) + 1)
            /\ AnnouncedEnd(n) < (IF n = Len(BlocksBegun) THEN py.MSGPROC_scalar
                                  ELSE AnnouncedStart(n + 1))
      /\ \A c \in 1..Len(calls) :
            calls[c].op = "end_file" =>
               PYTHON_ecount(py) = Cardinality({k \in 1..c : calls[k].op = "show_eq"})

\* Two blocks, the first of them of several scalar equations, and end_file
\* reached with the count of all the show_eq calls.
C27_Witness ==
    /\ lang = "python"
    /\ calls # <<>>
    /\ calls[Len(calls)].op = "end_file"
    /\ Len(BlocksBegun) = 2
    /\ AnnouncedStart(2) > 2
    /\ AnnouncedEnd(2) = PYTHON_ecount(py)
    /\ PYTHON_ecount(py) = Cardinality(Positions("show_eq"))

-----------------------------------------------------------------------------
(* The end of wrap_write.                                                  *)

WrapEnded == wrap.pc \in {"returned", "fatal"}

\* A turn of the loop returns, ends in the fatal error, or leaves a shorter
\* rest.
WrapTurnAdvances == wrap'.pc \in {"returned", "fatal"} \/ Len(wrap'.rest) < Len(wrap.rest)

\* C28 as stated: wrap_write ends for every line, line length and flags;
\* every turn of its loop returns, aborts or moves the start of the rest on
\* by at least one character; and the loop makes at most as many turns as
\* the line has characters.
C28_WrapWriteTerminatesBase ==
    /\ <>WrapEnded
    /\ [][WrapTurnAdvances]_vars
    /\ [](Len(wrap.seen) <= Len(wrap.line))

\* C28: the same, with the turn that ends the call counted: the loop makes
\* at most one turn more than the line has characters.
C28_WrapWriteTerminates ==
    /\ <>WrapEnded
    /\ [][WrapTurnAdvances]_vars
    /\ [](Len(wrap.seen) <= Len(wrap.line) + 1)

\* A line of at least three characters took as many turns as it has
\* characters, and the call returned.
C28_Witness ==
    /\ wrap.pc = "returned"
    /\ Len(wrap.line) >= 3
    /\ Len(wrap.seen) = Len(wrap.line)

-----------------------------------------------------------------------------
(* What wrap_write keeps of the line.                                      *)

\* The places of a text taken by the break markers (a newline and three
\* spaces) that start at the places `breaks`.
MarkerPlaces(breaks) == UNION {b..(b + 3) : b \in breaks}

\* The text written, with the break markers taken out.
RECURSIVE Unmarked(_, _, _)
Unmarked(text, i, marked) ==
    IF i > Len(text) THEN <<>>
    ELSE (IF i \in marked THEN <<>> ELSE <<text[i]>>) \o Unmarked(text, i + 1, marked)

WrapWritten == Unmarked(wrap.code, 1, MarkerPlaces(wrap.breaks))

\* C29: when wrap_write has returned, the text written, with the break
\* markers taken out, is the line, followed by one newline when addcr is
\* set; every marker is a newline and three spaces; and while the loop
\* runs, what is written and what is left make up the line, in order.
C29_WrapPreservesContent ==
    /\ \A b \in wrap.breaks :
          SubSeq(wrap.code, b, b + 3) = <<"\n", " ", " ", " ">>
    /\ wrap.pc = "loop" => WrapWritten \o wrap.rest = wrap.line
    /\ wrap.pc = "returned" =>
          WrapWritten = wrap.line \o (IF wrap.addcr THEN <<"\n">> ELSE <<>>)

\* A line with a newline of its own was broken as well, and the call
\* returned with the newline asked for at the end.
C29_Witness ==
    /\ wrap.pc = "returned"
    /\ wrap.addcr
    /\ wrap.breaks # {}
    /\ \E i \in 1..Len(wrap.line) : wrap.line[i] = "\n"
    /\ Len(wrap.code) = Len(wrap.line) + 4 * Cardinality(wrap.breaks) + 1

-----------------------------------------------------------------------------
(* The declarations of the tablo and html targets.                         *)

\* How many times Tablo_writedecs or HTML_writedecs has been called.
DecsWritten == IF lang = "tablo" THEN tablo.decs ELSE html.decs

\* The step is the first begin_block of the run.
FirstBlockStep ==
    /\ Positions("begin_block") = {}
    /\ Len(calls') = Len(calls) + 1
    /\ calls'[Len(calls')].op = "begin_block"

\* C30: in the tablo and html targets the declarations are written once in
\* a run that begins a block and never in a run that begins none, end_file
\* or not; they are written in the step of the first begin_block, and no
\* show_eq comes before that call.
C30_DeferredDeclarations ==
    /\ [](lang \in {"tablo", "html"} =>
            /\ DecsWritten = (IF Positions("begin_block") = {} THEN 0 ELSE 1)
            /\ \A e \in Positions("show_eq") \cup Positions("begin_eqn") :
                  \E b \in Positions("begin_block") : b < e)
    /\ [][(lang \in {"tablo", "html"} /\ tablo'.decs + html'.decs # tablo.decs + html.decs)
             => FirstBlockStep]_vars

\* A run of the tablo target with two blocks has ended: the declarations
\* were written once.
C30_Witness ==
    /\ lang = "tablo"
    /\ pc = "done"
    /\ Cardinality(Positions("begin_block")) = 2
    /\ DecsWritten = 1
    /\ tablo.Tablo_eqn = 2

====
